---- MODULE Spec2Model ----
(***************************************************************************)
(* Event-sourced IAM service: aggregates that change only by applying      *)
(* versioned events, the append-only event store with its unique           *)
(* (id, version) index, the unit of work that scopes one transaction and   *)
(* stages outbox rows, and the message bus that drains a queue of          *)
(* commands and events.                                                    *)
(***************************************************************************)
EXTENDS Integers, Sequences, FiniteSets, TLC

\* ------------------------------------------------------------------ bounds
\* events constructed in one behaviour (each takes the next clock value)
MaxEvents == 3
\* units of work entered in one behaviour
MaxScopes == 3
\* highest version in a log handed to the replay on its own
MaxReplay == 3
\* messages constructed or queued again in one behaviour of the message bus
MaxMessages == 4
\* events one handler leaves in the internal backlog
MaxProduced == 2

\* keys of a dict handed to the transcoder
MaxKeys == 2
\* commands one aggregate executes in one behaviour
MaxCommands == 2

\* concurrent tasks, each with its own unit of work and session
Writers == {"w1", "w2"}
\* uuid4() values of users, and group ids supplied by CreateGroup commands
UserIds == {"u1"}
GroupIds == {"g1"}
AggIds == UserIds \cup GroupIds
\* uuid4() values drawn for GroupRoles.id
RoleIds == {1, 2}
\* AccessPermission flags used as event payloads (PATENT)
Perms == {1}
RolePerms == {2}
RoleNames == {"manager"}
\* event classes handed to _trigger_: by one task working alone, and by
\* concurrent tasks
TriggerClasses == {"User.PermissionAssigned", "User.CreateGroupRequested",
                  "Group.GroupRoleCreated"}
ConcurrentClasses == {"User.PermissionAssigned"}
\* uuid4() values concurrent tasks draw for GroupRoles.id
OneRoleId == {1}
\* event classes _trigger_ is also handed externally_notifiable=True for
ExternalClasses == {"User.PermissionAssigned"}

VARIABLES
    store,       \* committed rows of iam_event_store, in heap order
    outbox,      \* committed rows of iam_outbox
    ntSeq,       \* last value of the sequence event_nt_seq
    clock,       \* datetime.now(), as a logical clock
    uowState,    \* per task: "idle" | "open" | "failed" (an exception is propagating)
    txEvents,    \* per task: event rows written in the session, not committed
    txOutbox,    \* per task: outbox rows added to the session, not committed
    aggs,        \* per task: the in-memory aggregates it holds, by id
    extBacklog,  \* per task: event_store.external_backlogs
    intBacklog,  \* per task: event_store.internal_backlogs
    loaded,      \* per task: locals of the last EventStoreProxy._get
    batch,       \* per task: rows the last recorder.add tried to insert
    err,         \* per task: the exception that left the unit of work
    done,        \* per task: session.commit() succeeded in this scope
    scopes,      \* units of work entered so far
    running,     \* the task that holds the event loop between two awaits
    collected,   \* per task: what the caller's last collect_backlogs yielded
    queue,       \* per task: MessageBus.handle, the deque of messages to dispatch
    results,     \* per task: MessageBus.handle, the deque of results
    message,     \* per task: MessageBus.handle, the message popped last
    handlerIdx,  \* per task: handle_event, position in the list of handlers
    busPc,       \* per task: "idle" | "loop" | "event" | "command" | "other"
    busErr,      \* per task: the exception that left handle()
    busUow,      \* per task: the unit of work handle() made, "new" | "entered"
    enqueued,    \* per task: every message put on the queue in this run, in order
    dispatched,  \* per task: every message popped off the queue in this run, in order
    invoked,     \* per task: what each handler of the event being handled did
    nextMsg,     \* messages constructed or queued again so far, plus one
    codec,       \* Transcoder: an object, its encoding, and what decoding gives back
    mapped,      \* Mapper: a domain event, its stored event, and the event mapped back
    page,        \* application recorder: a query of the log and what it returned
    outcome      \* aggregate on its own: the last call, the aggregate before it, what it raised

uowVars == <<store, outbox, ntSeq, clock, uowState, txEvents, txOutbox, aggs,
             extBacklog, intBacklog, loaded, batch, err, done, scopes, running,
             collected>>

busVars == <<queue, results, message, handlerIdx, busPc, busErr, busUow,
             enqueued, dispatched, invoked, nextMsg>>

\* what the functions under test were applied to and what they returned
pureVars == <<codec, mapped, page, outcome>>

vars == <<uowVars, busVars, pureVars>>

\* ----------------------------------------------------------------- helpers
None == [kind |-> "None"]
NoLoad == [id |-> "", fetched |-> <<>>, err |-> "none", agg |-> None, applied |-> 0]
NoBatch == [called |-> FALSE, attempted |-> <<>>, size |-> 0]
NoCollect == [kind |-> "", items |-> <<>>]
NoCodec == [pc |-> "idle"]
NoMapped == [pc |-> "idle"]
NoPage == [pc |-> "idle"]
NoOutcome == [pc |-> "idle"]

Last(s) == s[Len(s)]

RECURSIVE Concat(_)
Concat(ss) == IF ss = <<>> THEN <<>> ELSE Head(ss) \o Concat(Tail(ss))

RECURSIVE SelectSeqBy(_, _)
\* filter(lambda e: e.<flag>, events)
SelectSeqBy(s, flag) ==
    IF s = <<>> THEN <<>>
    ELSE IF Head(s)[flag] THEN <<Head(s)>> \o SelectSeqBy(Tail(s), flag)
         ELSE SelectSeqBy(Tail(s), flag)

\* all orders in which the rows of a set can be returned
Orderings(S) ==
    {f \in [1..Cardinality(S) -> S] : \A i, j \in 1..Cardinality(S) : i # j => f[i] # f[j]}

UUID(hex) == [hex |-> hex]
Str(uuid) == uuid.hex

\* ------------------------------------------------------------ domain model
UserEvents == {"User.PurchaseMade", "User.PermissionAssigned",
               "User.PermissionExpired", "User.CreateGroupRequested"}
GroupEvents == {"Group.PurchaseMade", "Group.PermissionAssigned",
                "Group.GroupRoleCreated"}
CreatedEvents == {"User.Created", "Group.Created"}

KindOf(id) == IF id \in UserIds THEN "User" ELSE "Group"
EventsOf(kind) == IF kind = "User" THEN UserEvents ELSE GroupEvents
CreatedOf(kind) == IF kind = "User" THEN "User.Created" ELSE "Group.Created"

\* payloads an event class is constructed with: the group id drawn for
\* CreateGroupRequested, role_name and group_permissions of GroupRoleCreated,
\* the list requested_access or expired_permissions of the others
PayloadsOf(cls) ==
    IF cls \in {"User.CreateGroupRequested"} THEN GroupIds
    ELSE IF cls = "Group.GroupRoleCreated"
    THEN {[role_name |-> n, group_permissions |-> <<p>>] : n \in RoleNames, p \in RolePerms}
    ELSE {<<p>> : p \in Perms}

\* event classes none of which is internally notifiable
InternalDefaultNever(cls) == FALSE

\* class default of internally_notifiable
InternalDefault(cls) == cls = "User.CreateGroupRequested"

get_topic(cls) == <<"app.domain.iam", cls>>
resolve_topic(topic) == topic[2]

\* the fields of a Created event beyond those of every event: User.create
\* passes name and email (permissions takes the class default), Group.create
\* passes name and created_by
CreatedArg(kind, kw) ==
    IF kind = "User"
    THEN [topic |-> get_topic(kind), name |-> kw.name, email |-> kw.email,
          permissions |-> 0]
    ELSE [topic |-> get_topic(kind), name |-> kw.name, created_by |-> kw.created_by]

\* what the commands CreateUser and CreateGroup carry
CreateUserArgs == {[name |-> "Migo", email |-> e] : e \in {"", "whatsoever@mail.com"}}
CreateGroupArgs == {[name |-> "SVB", created_by |-> UUID(u)] : u \in UserIds}
OneUser == {[name |-> "Migo", email |-> "whatsoever@mail.com"]}
CreateArgs(kind, users) == IF kind = "User" THEN users ELSE CreateGroupArgs

IsAggregate(obj) == obj.kind \in {"User", "Group"}

RECURSIVE BitAnd(_, _)
\* a & b on non-negative integers
BitAnd(a, b) ==
    IF a = 0 \/ b = 0 THEN 0
    ELSE (a % 2) * (b % 2) + 2 * BitAnd(a \div 2, b \div 2)

RECURSIVE Sum(_)
Sum(s) == IF s = <<>> THEN 0 ELSE Head(s) + Sum(Tail(s))

\* PermissionControl._has_permission(*perm)
has_permission(permissions, perm) ==
    \A i \in 1..Len(perm) : BitAnd(permissions, perm[i]) = perm[i]

RECURSIVE add_permission(_, _)
\* PermissionControl._add_permission(*perm)
add_permission(permissions, perm) ==
    IF perm = <<>> THEN permissions
    ELSE add_permission(IF has_permission(permissions, <<Head(perm)>>)
                        THEN permissions ELSE permissions + Head(perm), Tail(perm))

RECURSIVE remove_permission_unchecked(_, _)
\* a removal that subtracts a flag whether or not it is held
remove_permission_unchecked(permissions, perm) ==
    IF perm = <<>> THEN permissions
    ELSE remove_permission_unchecked(permissions - Head(perm), Tail(perm))

RECURSIVE remove_permission(_, _)
\* PermissionControl._remove_permission(*perm)
remove_permission(permissions, perm) ==
    IF perm = <<>> THEN permissions
    ELSE remove_permission(IF has_permission(permissions, <<Head(perm)>>)
                           THEN permissions - Head(perm) ELSE permissions, Tail(perm))

GroupRole(rid, name, gid, gperm) ==
    [id |-> rid, name |-> name, group_id |-> gid, group_permissions |-> gperm]

\* the type-specific apply hook; rnd is the uuid4() the hook draws
Apply(ev, obj, rnd) ==
    IF ev.cls \in {"User.PermissionAssigned", "Group.PermissionAssigned"}
    THEN IF has_permission(obj.permissions, ev.arg) THEN obj
         ELSE [obj EXCEPT !.permissions = add_permission(@, ev.arg)]
    ELSE IF ev.cls = "User.PermissionExpired"
    THEN [obj EXCEPT !.permissions = remove_permission(@, ev.arg)]
    ELSE IF ev.cls = "Group.GroupRoleCreated"
    THEN IF \E r \in obj.group_roles : r.name = ev.arg.role_name
         THEN obj
         ELSE [obj EXCEPT !.group_roles =
                  @ \cup {GroupRole(rnd[1], ev.arg.role_name, ev.id,
                                    Sum(ev.arg.group_permissions))}]
    ELSE obj

\* mutate that stamps the aggregate before it compares the versions
EventMutateStampsFirst(ev, obj, rnd) ==
    IF ~IsAggregate(obj) THEN [err |-> "NotAggregateError", agg |-> obj]
    ELSE IF ev.version # obj.version + 1
    THEN [err |-> "VersionError",
          agg |-> [obj EXCEPT !.version = ev.version, !.update_dt = ev.timestamp]]
    ELSE [err |-> "none",
          agg |-> Apply(ev, [obj EXCEPT !.version = obj.version + 1,
                                        !.update_dt = ev.timestamp], rnd)]

\* mutate that applies the event and leaves the aggregate's version alone
EventMutateKeepsVersion(ev, obj, rnd) ==
    IF ~IsAggregate(obj) THEN [err |-> "NotAggregateError", agg |-> obj]
    ELSE IF ev.version # obj.version + 1 THEN [err |-> "VersionError", agg |-> obj]
    ELSE [err |-> "none",
          agg |-> Apply(ev, [obj EXCEPT !.update_dt = ev.timestamp], rnd)]

\* mutate that only refuses versions it has already passed
EventMutateAcceptsGap(ev, obj, rnd) ==
    IF ~IsAggregate(obj) THEN [err |-> "NotAggregateError", agg |-> obj]
    ELSE IF ev.version <= obj.version THEN [err |-> "VersionError", agg |-> obj]
    ELSE [err |-> "none",
          agg |-> Apply(ev, [obj EXCEPT !.version = ev.version,
                                        !.update_dt = ev.timestamp], rnd)]

\* Aggregate.Event.mutate
EventMutate(ev, obj, rnd) ==
    IF ~IsAggregate(obj) THEN [err |-> "NotAggregateError", agg |-> obj]
    ELSE IF ev.version # obj.version + 1 THEN [err |-> "VersionError", agg |-> obj]
    ELSE [err |-> "none",
          agg |-> Apply(ev, [obj EXCEPT !.version = obj.version + 1,
                                        !.update_dt = ev.timestamp], rnd)]

\* a mutate that builds the aggregate with the class default of email
CreatedMutateDropsEmail(ev, obj, rnd) ==
    LET kind == resolve_topic(ev.arg.topic)
    IN [err |-> "none",
        agg |-> [kind |-> kind, id |-> ev.id, version |-> ev.version,
                 create_dt |-> ev.timestamp, update_dt |-> 0,
                 permissions |-> IF kind = "User" THEN ev.arg.permissions ELSE 0,
                 group_roles |-> {},
                 events |-> <<>>]
                @@ (IF kind = "User"
                    THEN [name |-> ev.arg.name, email |-> "", email_verified |-> FALSE]
                    ELSE [name |-> ev.arg.name, created_by |-> ev.arg.created_by,
                          group_permissions |-> 1])]

\* a mutate that hands the pending events of its target on to the aggregate
\* it builds
CreatedMutateKeepsPending(ev, obj, rnd) ==
    LET kind == resolve_topic(ev.arg.topic)
    IN [err |-> "none",
        agg |-> [kind |-> kind, id |-> ev.id, version |-> ev.version,
                 create_dt |-> ev.timestamp, update_dt |-> 0,
                 permissions |-> IF kind = "User" THEN ev.arg.permissions ELSE 0,
                 group_roles |-> IF kind = "Group"
                                 THEN {GroupRole(rnd[1], "default", ev.id, 0),
                                       GroupRole(rnd[2], "owner", ev.id, 0)}
                                 ELSE {},
                 events |-> IF IsAggregate(obj) THEN obj.events ELSE <<>>]
                @@ (IF kind = "User"
                    THEN [name |-> ev.arg.name, email |-> ev.arg.email,
                          email_verified |-> FALSE]
                    ELSE [name |-> ev.arg.name, created_by |-> ev.arg.created_by,
                          group_permissions |-> 1])]

\* Aggregate.Created.mutate: the target is ignored, a new aggregate is built
\* (update_dt is left unset: 0); Group.__post_init__ adds two roles
CreatedMutate(ev, obj, rnd) ==
    LET kind == resolve_topic(ev.arg.topic)
    IN [err |-> "none",
        agg |-> [kind |-> kind, id |-> ev.id, version |-> ev.version,
                 create_dt |-> ev.timestamp, update_dt |-> 0,
                 permissions |-> IF kind = "User" THEN ev.arg.permissions ELSE 0,
                 group_roles |-> IF kind = "Group"
                                 THEN {GroupRole(rnd[1], "default", ev.id, 0),
                                       GroupRole(rnd[2], "owner", ev.id, 0)}
                                 ELSE {},
                 events |-> <<>>]
                @@ (IF kind = "User"
                    THEN [name |-> ev.arg.name, email |-> ev.arg.email,
                          email_verified |-> FALSE]
                    ELSE [name |-> ev.arg.name, created_by |-> ev.arg.created_by,
                          group_permissions |-> 1])]

Mutate(ev, obj, rnd) ==
    IF ev.cls \in CreatedEvents THEN CreatedMutate(ev, obj, rnd)
    ELSE EventMutate(ev, obj, rnd)

\* the uuid4() draws one mutate makes (the two roles of a new group are
\* drawn together)
DrawsOf(cls, rs) ==
    IF cls \in {"Group.Created", "Group.GroupRoleCreated"}
    THEN {<<r, r>> : r \in rs}
    ELSE {<<1, 1>>}

DrawSeqs(events, rs) ==
    {d \in [1..Len(events) -> RoleIds \X RoleIds] :
        \A i \in 1..Len(events) : d[i] \in DrawsOf(events[i].cls, rs)}

\* ------------------------------------------------------------------ mapper
\* Transcoder.encode of the event's fields other than id and version
Encode(ev) ==
    [timestamp |-> <<"datetime_iso", ev.timestamp>>,
     externally_notifiable |-> ev.externally_notifiable,
     internally_notifiable |-> ev.internally_notifiable,
     payload |-> IF ev.cls = "User.CreateGroupRequested"
                 THEN <<"uuid_hex", Str(ev.arg)>>
                 ELSE <<"json", ev.arg>>]

\* Transcoder.decode
Decode(state) ==
    [timestamp |-> state.timestamp[2],
     externally_notifiable |-> state.externally_notifiable,
     internally_notifiable |-> state.internally_notifiable,
     arg |-> IF state.payload[1] = "uuid_hex"
             THEN UUID(state.payload[2])
             ELSE state.payload[2]]

\* Mapper.from_domain_event_to_stored_event
from_domain_event_to_stored_event(ev) ==
    [id |-> Str(ev.id), version |-> ev.version,
     topic |-> get_topic(ev.cls), state |-> Encode(ev)]

\* a mapping back that leaves the version to the class default
from_stored_event_default_version(row) ==
    LET d == Decode(row.state)
    IN [id |-> UUID(row.id), version |-> 0, timestamp |-> d.timestamp,
        externally_notifiable |-> d.externally_notifiable,
        internally_notifiable |-> d.internally_notifiable,
        cls |-> resolve_topic(row.topic), arg |-> d.arg]

\* Mapper.from_stored_event_to_domain_event (columns beyond the StoredEvent
\* fields, such as nt_id, are dropped by from_kwargs)
from_stored_event_to_domain_event(row) ==
    LET d == Decode(row.state)
    IN [id |-> UUID(row.id), version |-> row.version, timestamp |-> d.timestamp,
        externally_notifiable |-> d.externally_notifiable,
        internally_notifiable |-> d.internally_notifiable,
        cls |-> resolve_topic(row.topic), arg |-> d.arg]

\* ------------------------------------------------------------- event store
RowSet(s) == {s[i] : i \in 1..Len(s)}

\* a table without the unique index
ConflictsNever(row, rows) == FALSE

\* idx_on_event_store: unique (id, version)
Conflicts(row, rows) == \E r \in rows : r.id = row.id /\ r.version = row.version

RECURSIVE InsertRowsSkipping(_, _, _, _)
\* an insert that passes over the rows the unique index refuses
InsertRowsSkipping(events, visible, nt, acc) ==
    IF events = <<>>
    THEN [ok |-> TRUE, rows |-> acc, attempted |-> acc, nt |-> nt]
    ELSE LET row == [nt_id |-> nt + 1, id |-> Head(events).id,
                     version |-> Head(events).version,
                     topic |-> Head(events).topic, state |-> Head(events).state]
         IN IF \E r \in visible \cup RowSet(acc) :
                  r.id = row.id /\ r.version = row.version
            THEN InsertRowsSkipping(Tail(events), visible, nt + 1, acc)
            ELSE InsertRowsSkipping(Tail(events), visible, nt + 1, Append(acc, row))

RECURSIVE InsertRows(_, _, _, _)
\* EventStoreRepository._insert_events: the rows go in one by one, each takes
\* the next nt_id and then meets the unique index; the first violation raises
InsertRows(events, visible, nt, acc) ==
    IF events = <<>>
    THEN [ok |-> TRUE, rows |-> acc, attempted |-> acc, nt |-> nt]
    ELSE LET row == [nt_id |-> nt + 1, id |-> Head(events).id,
                     version |-> Head(events).version,
                     topic |-> Head(events).topic, state |-> Head(events).state]
         IN IF Conflicts(row, visible \cup RowSet(acc))
            THEN [ok |-> FALSE, rows |-> acc, attempted |-> Append(acc, row),
                  nt |-> nt + 1]
            ELSE InsertRows(Tail(events), visible, nt + 1, Append(acc, row))

\* EventStoreRepository._get: SELECT * ... WHERE id = :id, which names no
\* order: the rows come back in whatever order the engine produces
SelectById(rows, id) == Orderings({r \in rows : r.id = id})

RECURSIVE ReplayFrom(_, _, _, _)
\* the loop of EventStoreProxy._get: aggregate = domain_event.mutate(aggregate)
ReplayFrom(events, rnds, i, aggregate) ==
    IF i > Len(events)
    THEN [err |-> IF aggregate = None THEN "AggregateNotFoundError" ELSE "none",
          agg |-> aggregate, applied |-> i - 1]
    ELSE LET r == Mutate(events[i], aggregate, rnds[i])
         IN IF r.err # "none"
            THEN [err |-> r.err, agg |-> r.agg, applied |-> i - 1]
            ELSE ReplayFrom(events, rnds, i + 1, r.agg)

\* a _get that returns None when the id has no rows
ProxyGetReturnsNone(fetched, rnds) ==
    LET r == ReplayFrom([i \in 1..Len(fetched) |->
                            from_stored_event_to_domain_event(fetched[i])], rnds, 1, None)
    IN IF r.err = "AggregateNotFoundError" THEN [r EXCEPT !.err = "none"] ELSE r

\* EventStoreProxy._get on the rows as fetched
ProxyGet(fetched, rnds) ==
    ReplayFrom([i \in 1..Len(fetched) |-> from_stored_event_to_domain_event(fetched[i])],
               rnds, 1, None)

\* ------------------------------------------------------------ repositories
HasEvents(o) == "events" \in DOMAIN o

\* EventStoreProxy._add_hook
ProxyAddHook(objs, ext, int) ==
    [ext |-> ext \o Concat([i \in 1..Len(objs) |->
                               SelectSeqBy(objs[i].events, "externally_notifiable")]),
     int |-> int \o Concat([i \in 1..Len(objs) |->
                               SelectSeqBy(objs[i].events, "internally_notifiable")])]

\* SqlAlchemyRepository._add_hook, which OutboxRepository inherits: it reads
\* o.events of whatever it is handed
OutboxAddHook(o, ext) ==
    IF ~HasEvents(o) THEN [err |-> "AttributeError", ext |-> ext]
    ELSE [err |-> "none", ext |-> ext \o SelectSeqBy(o.events, "externally_notifiable")]

\* OutboxRepository._add
OutboxRow(ev, oid) ==
    LET s == from_domain_event_to_stored_event(ev)
    IN [id |-> oid, aggregate_id |-> s.id, topic |-> s.topic, state |-> s.state,
        processed |-> FALSE]

RECURSIVE CommitHook(_, _, _)
\* SqlAlchemyUnitOfWork._commit_hook: for each event that collect_backlogs
\* pops off the external backlog, outboxes.add(event)
CommitHook(ext, obExt, txo) ==
    IF ext = <<>> THEN [err |-> "none", ext |-> ext, txOutbox |-> txo]
    ELSE LET h == OutboxAddHook(Head(ext), obExt)
         IN IF h.err # "none"
            THEN [err |-> h.err, ext |-> Tail(ext), txOutbox |-> txo]
            ELSE CommitHook(Tail(ext), h.ext,
                            Append(txo, OutboxRow(Head(ext), Len(txo) + 1)))

\* ------------------------------------------------------------- message bus
\* event classes a handler can emit; only E1 has handlers registered
EventTypes == {"E1", "E0"}
\* MessageBus.event_handlers: the number of handlers of each registered class
EVENT_HANDLERS == [t \in {"E1"} |-> 2]

\* a message, the id standing for its identity and parent for the message
\* whose handler constructed it
Message(n, kind, type, parent) == [id |-> n, kind |-> kind, type |-> type, parent |-> parent]
NoMessage == Message(0, "None", "", 0)

\* COMMAND_HANDLERS: the command classes of the service that have a handler
COMMAND_HANDLERS == {"CreateUser", "RequestCreateGroup"}
\* MessageBus.command_handlers of a bus that is handed its handlers: C has a
\* handler, C0 has none
TestCommands == {"C"}
CommandTypes == {"C", "C0"}

BusInit ==
    /\ queue = [w \in Writers |-> <<>>]
    /\ results = [w \in Writers |-> <<>>]
    /\ message = [w \in Writers |-> NoMessage]
    /\ handlerIdx = [w \in Writers |-> 0]
    /\ busPc = [w \in Writers |-> "idle"]
    /\ busErr = [w \in Writers |-> "none"]
    /\ busUow = [w \in Writers |-> "new"]
    /\ enqueued = [w \in Writers |-> <<>>]
    /\ dispatched = [w \in Writers |-> <<>>]
    /\ invoked = [w \in Writers |-> <<>>]
    /\ nextMsg = 1

\* a deque popped at its right end
PopRight(q) == [message |-> Last(q), queue |-> SubSeq(q, 1, Len(q) - 1)]

\* queue.popleft()
PopLeft(q) == [message |-> Head(q), queue |-> Tail(q)]

\* an extend that leaves the deque as it is
ExtendDrops(q, items) == q

\* queue.extend(items), queue.append(item)
Extend(q, items) == q \o items

\* the repository behind self.users, self.groups and self.outboxes: users and
\* groups are proxies of the one event store
Repositories == <<"event_store", "event_store", "outboxes">>

\* a drain that yields the events of a deque and leaves them there
DrainDequeKeeps(q, items) == [items |-> items \o q, queue |-> q]

RECURSIVE DrainDeque(_, _)
\* while backlogs := getattr(repository, in_out): yield backlogs.popleft()
DrainDeque(q, items) ==
    IF q = <<>> THEN [items |-> items, queue |-> q]
    ELSE LET p == PopLeft(q) IN DrainDeque(p.queue, Append(items, p.message))

RECURSIVE DrainRepositories(_, _, _)
\* the three loops of collect_backlogs over the deques the repositories hold
DrainRepositories(repos, backlogs, items) ==
    IF repos = <<>> THEN [items |-> items, backlogs |-> backlogs]
    ELSE LET d == DrainDeque(backlogs[Head(repos)], items)
         IN DrainRepositories(Tail(repos), [backlogs EXCEPT ![Head(repos)] = d.queue],
                              d.items)

\* uow.collect_backlogs(in_out) on a unit of work whose event store holds
\* backlog as its deque of that kind: users, groups and outboxes are
\* attributes only once the unit of work was entered, and nothing is ever put
\* in a deque of the outbox repository
collect_backlogs(uow, backlog) ==
    IF uow = "new" THEN [err |-> "AttributeError", items |-> <<>>, backlog |-> backlog]
    ELSE LET d == DrainRepositories(Repositories,
                                    [event_store |-> backlog, outboxes |-> <<>>], <<>>)
         IN [err |-> "none", items |-> d.items, backlog |-> d.backlogs.event_store]

\* ------------------------------------------------------------ unit of work
UowInit ==
    /\ store = <<>>
    /\ outbox = <<>>
    /\ ntSeq = 0
    /\ clock = 0
    /\ uowState = [w \in Writers |-> "idle"]
    /\ txEvents = [w \in Writers |-> <<>>]
    /\ txOutbox = [w \in Writers |-> <<>>]
    /\ aggs = [w \in Writers |-> [id \in AggIds |-> None]]
    /\ extBacklog = [w \in Writers |-> <<>>]
    /\ intBacklog = [w \in Writers |-> <<>>]
    /\ loaded = [w \in Writers |-> NoLoad]
    /\ batch = [w \in Writers |-> NoBatch]
    /\ err = [w \in Writers |-> "none"]
    /\ done = [w \in Writers |-> FALSE]
    /\ scopes = 0
    /\ running = "none"
    /\ collected = [w \in Writers |-> NoCollect]

\* no function under test has been applied
CodecIdle == codec = NoCodec
MappedIdle == mapped = NoMapped
PageIdle == page = NoPage
OutcomeIdle == outcome = NoOutcome

PureInit == CodecIdle /\ MappedIdle /\ PageIdle /\ OutcomeIdle

Init == BusInit /\ UowInit /\ PureInit

\* The tasks share one event loop: a task runs alone from one await to the
\* next, so only an await (a statement sent to the store) lets another task in.
Runs(w) == running \in {"none", w}
Holds(w) == running' = w
Awaits(w) == running' = "none"

\* the locals of _get are gone once the handler moves on
Forget(w) == loaded' = [loaded EXCEPT ![w] = NoLoad]

\* A handler loads or creates its aggregates, executes commands on them, adds
\* them, commits and leaves.
Working(w) == uowState[w] = "open" /\ ~batch[w].called /\ ~done[w]

\* a registry that hands every task the one session
SessionShared(w) == "w1"

\* async_scoped_session(..., scopefunc=current_task): a session per task
Session(w) == w

\* rows a session sees: the committed ones and its own
Visible(w) == RowSet(store) \cup RowSet(txEvents[Session(w)])

\* SqlAlchemyUnitOfWork.__aenter__: a session, a new event-store proxy with
\* empty backlogs (users and groups are the same proxy), an outbox repository
Enter(w) ==
    /\ UNCHANGED <<busVars, pureVars>>
    /\ uowState[w] = "idle"
    /\ Runs(w) /\ Holds(w)
    /\ scopes < MaxScopes
    /\ scopes' = scopes + 1
    /\ uowState' = [uowState EXCEPT ![w] = "open"]
    /\ txEvents' = [txEvents EXCEPT ![Session(w)] = <<>>]
    /\ txOutbox' = [txOutbox EXCEPT ![Session(w)] = <<>>]
    /\ extBacklog' = [extBacklog EXCEPT ![w] = <<>>]
    /\ intBacklog' = [intBacklog EXCEPT ![w] = <<>>]
    /\ batch' = [batch EXCEPT ![w] = NoBatch]
    /\ err' = [err EXCEPT ![w] = "none"]
    /\ done' = [done EXCEPT ![w] = FALSE]
    /\ collected' = [collected EXCEPT ![w] = NoCollect]
    /\ UNCHANGED <<store, outbox, ntSeq, clock, aggs, loaded>>

\* a user id is a fresh uuid4(); a group id is the one the command carries
IdFree(id) ==
    /\ \A w \in Writers : aggs[w][id] = None
    /\ \A w \in Writers : \A r \in Visible(w) : r.id # id

\* Aggregate._create_: the Created event with version 1, mutate(None), the
\* event appended to the new aggregate's pending events
CreateAggregate(id, kw, now, rnd) ==
    LET event == [id |-> UUID(id), version |-> 1, timestamp |-> now,
                  externally_notifiable |-> FALSE,
                  internally_notifiable |-> FALSE,
                  cls |-> CreatedOf(KindOf(id)), arg |-> CreatedArg(KindOf(id), kw)]
        aggregate == Mutate(event, None, rnd).agg
    IN [aggregate EXCEPT !.events = Append(@, event)]

\* User.create / Group.create inside an open unit of work
Create(w, id, rs, users) ==
    /\ UNCHANGED <<busVars, pureVars>>
    /\ Working(w)
    /\ Runs(w) /\ Holds(w)
    /\ clock < MaxEvents
    /\ aggs[w][id] = None
    /\ id \in UserIds => IdFree(id)
    /\ \E rnd \in DrawsOf(CreatedOf(KindOf(id)), rs), kw \in CreateArgs(KindOf(id), users) :
         aggs' = [aggs EXCEPT ![w][id] = CreateAggregate(id, kw, clock + 1, rnd)]
    /\ clock' = clock + 1
    /\ Forget(w)
    /\ UNCHANGED <<store, outbox, ntSeq, uowState, txEvents, txOutbox,
                   extBacklog, intBacklog, batch, err, done, scopes, collected>>

\* a _trigger_ that puts the new event at the head of the pending events
TriggerOnPrepends(obj, cls, arg, ext, now, rnd) ==
    LET event == [id |-> obj.id, version |-> obj.version + 1, timestamp |-> now,
                  externally_notifiable |-> ext,
                  internally_notifiable |-> InternalDefault(cls),
                  cls |-> cls, arg |-> arg]
        r == Mutate(event, obj, rnd)
    IN IF r.err # "none" THEN [err |-> r.err, agg |-> r.agg]
       ELSE [err |-> "none", agg |-> [r.agg EXCEPT !.events = <<event>> \o @]]

\* Aggregate._trigger_: the next version, the event, mutate, append to the
\* pending events
TriggerOn(obj, cls, arg, ext, now, rnd) ==
    LET event == [id |-> obj.id, version |-> obj.version + 1, timestamp |-> now,
                  externally_notifiable |-> ext,
                  internally_notifiable |-> InternalDefault(cls),
                  cls |-> cls, arg |-> arg]
        r == Mutate(event, obj, rnd)
    IN IF r.err # "none" THEN [err |-> r.err, agg |-> r.agg]
       ELSE [err |-> "none", agg |-> [r.agg EXCEPT !.events = Append(@, event)]]

\* aggregate.execute(command), for the commands that trigger one event
Trigger(w, id, classes, rs) ==
    /\ UNCHANGED <<busVars, pureVars>>
    /\ Working(w)
    /\ Runs(w) /\ Holds(w)
    /\ clock < MaxEvents
    /\ aggs[w][id] # None
    /\ \E cls \in EventsOf(aggs[w][id].kind) \cap classes :
       \E ext \in {FALSE} \cup {cls \in ExternalClasses},
          arg \in PayloadsOf(cls), rnd \in DrawsOf(cls, rs) :
         LET a == IF cls = "User.CreateGroupRequested" THEN UUID(arg) ELSE arg
             r == TriggerOn(aggs[w][id], cls, a, ext, clock + 1, rnd)
         IN /\ r.err = "none"
            /\ aggs' = [aggs EXCEPT ![w][id] = r.agg]
    /\ clock' = clock + 1
    /\ Forget(w)
    /\ UNCHANGED <<store, outbox, ntSeq, uowState, txEvents, txOutbox,
                   extBacklog, intBacklog, batch, err, done, scopes, collected>>

\* uow.users.get(id): EventStoreProxy._get over the rows the recorder returns
Get(w, id, rs) ==
    /\ UNCHANGED <<busVars, pureVars>>
    /\ Working(w)
    /\ Runs(w) /\ Awaits(w)
    /\ aggs[w][id] = None
    /\ \E fetched \in SelectById(Visible(w), id) :
       \E rnds \in DrawSeqs([i \in 1..Len(fetched) |->
                                from_stored_event_to_domain_event(fetched[i])], rs) :
         LET r == ProxyGet(fetched, rnds)
         IN /\ loaded' = [loaded EXCEPT ![w] =
                            [id |-> id, fetched |-> fetched, err |-> r.err,
                             agg |-> r.agg, applied |-> r.applied]]
            /\ IF r.err = "none"
               THEN /\ aggs' = [aggs EXCEPT ![w][id] = r.agg]
                    /\ UNCHANGED <<uowState, err>>
               ELSE /\ uowState' = [uowState EXCEPT ![w] = "failed"]
                    /\ err' = [err EXCEPT ![w] = r.err]
                    /\ UNCHANGED aggs
    /\ UNCHANGED <<store, outbox, ntSeq, clock, txEvents, txOutbox,
                   extBacklog, intBacklog, batch, done, scopes, collected>>

\* a _collect_ that leaves the pending events where they are
CollectKeepsPending(obj) == [events |-> obj.events, agg |-> obj]

\* Aggregate._collect_: while self.events: yield self.events.popleft()
Collect(obj) ==
    LET d == DrainDeque(obj.events, <<>>)
    IN [events |-> d.items, agg |-> [obj EXCEPT !.events = d.queue]]

\* the aggregates a call of add(*aggregate) can be handed
AddArgs(w) ==
    LET held == {id \in AggIds : aggs[w][id] # None}
    IN {<<id>> : id \in held} \cup {p \in held \X held : p[1] # p[2]}

\* uow.users.add(*aggregate): the hook copies the notifiable pending events to
\* the backlogs, _add drains the pending events and hands them to the recorder.
\* An insert that meets an uncommitted row of another session with the same
\* (id, version) waits for that session to end.
Add(w) ==
    /\ UNCHANGED <<busVars, pureVars>>
    /\ Working(w)
    /\ Runs(w) /\ Awaits(w)
    /\ \E ids \in AddArgs(w) :
         LET objs == [i \in 1..Len(ids) |-> aggs[w][ids[i]]]
             hook == ProxyAddHook(objs, extBacklog[w], intBacklog[w])
             pending == Concat([i \in 1..Len(ids) |-> Collect(objs[i]).events])
             stored == [i \in 1..Len(pending) |->
                           from_domain_event_to_stored_event(pending[i])]
             res == InsertRows(stored, Visible(w), ntSeq, <<>>)
         IN /\ \A v \in Writers \ {Session(w)} : \A i \in 1..Len(stored) :
                   ~Conflicts(stored[i], RowSet(txEvents[v]))
            /\ extBacklog' = [extBacklog EXCEPT ![w] = hook.ext]
            /\ intBacklog' = [intBacklog EXCEPT ![w] = hook.int]
            /\ aggs' = [aggs EXCEPT ![w] =
                          [id \in AggIds |->
                              IF \E i \in 1..Len(ids) : ids[i] = id
                              THEN Collect(aggs[w][id]).agg
                              ELSE aggs[w][id]]]
            /\ batch' = [batch EXCEPT ![w] =
                            [called |-> TRUE, attempted |-> res.attempted,
                             size |-> Len(stored)]]
            /\ ntSeq' = res.nt
            /\ txEvents' = [txEvents EXCEPT ![Session(w)] = @ \o res.rows]
            /\ IF res.ok
               THEN UNCHANGED <<uowState, err>>
               ELSE /\ uowState' = [uowState EXCEPT ![w] = "failed"]
                    /\ err' = [err EXCEPT ![w] = "IntegrityError"]
    /\ Forget(w)
    /\ UNCHANGED <<store, outbox, clock, txOutbox, done, scopes, collected>>

\* uow.commit(): _commit_hook, then session.commit()
Commit(w) ==
    /\ UNCHANGED <<busVars, pureVars>>
    /\ uowState[w] = "open" /\ ~done[w]
    /\ Runs(w) /\ Awaits(w)
    /\ LET h == CommitHook(extBacklog[w], <<>>, txOutbox[Session(w)])
       IN /\ extBacklog' = [extBacklog EXCEPT ![w] = h.ext]
          /\ IF h.err # "none"
             THEN /\ uowState' = [uowState EXCEPT ![w] = "failed"]
                  /\ err' = [err EXCEPT ![w] = h.err]
                  /\ UNCHANGED <<store, outbox, txEvents, txOutbox, done>>
             ELSE /\ store' = store \o txEvents[Session(w)]
                  /\ outbox' = outbox \o h.txOutbox
                  /\ txEvents' = [txEvents EXCEPT ![Session(w)] = <<>>]
                  /\ txOutbox' = [txOutbox EXCEPT ![Session(w)] = <<>>]
                  /\ done' = [done EXCEPT ![w] = TRUE]
                  /\ UNCHANGED <<uowState, err>>
    /\ Forget(w)
    /\ UNCHANGED <<ntSeq, clock, aggs, intBacklog, batch, scopes, collected>>

\* a rollback that writes the pending rows out
RollbackKeeps(pending) == pending

\* what session.rollback() leaves of the session's pending rows
Rollback(pending) == <<>>

\* SqlAlchemyUnitOfWork.__aexit__: session.rollback(), session.close(); the
\* handler returns (or raises) and its aggregates go out of scope
Exit(w) ==
    /\ UNCHANGED <<busVars, pureVars>>
    /\ uowState[w] \in {"open", "failed"}
    /\ Runs(w) /\ Awaits(w)
    /\ uowState' = [uowState EXCEPT ![w] = "idle"]
    /\ store' = store \o Rollback(txEvents[Session(w)])
    /\ outbox' = outbox \o Rollback(txOutbox[Session(w)])
    /\ txEvents' = [txEvents EXCEPT ![Session(w)] = <<>>]
    /\ txOutbox' = [txOutbox EXCEPT ![Session(w)] = <<>>]
    /\ aggs' = [aggs EXCEPT ![w] = [id \in AggIds |-> None]]
    /\ Forget(w)
    /\ UNCHANGED <<ntSeq, clock, extBacklog, intBacklog, batch, err, done, scopes, collected>>

\* list(uow.collect_backlogs(in_out)) by the caller of a handler that has
\* left the unit of work (a call that yields nothing changes nothing)
CollectBacklogs(w, kind) ==
    /\ UNCHANGED <<busVars, pureVars>>
    /\ uowState[w] = "idle"
    /\ Runs(w)
    /\ scopes > 0
    /\ LET c == collect_backlogs("entered", IF kind = "internal_backlogs"
                                            THEN intBacklog[w] ELSE extBacklog[w])
       IN /\ c.items # <<>>
          /\ collected' = [collected EXCEPT ![w] = [kind |-> kind, items |-> c.items]]
          /\ IF kind = "internal_backlogs"
             THEN /\ intBacklog' = [intBacklog EXCEPT ![w] = c.backlog]
                  /\ UNCHANGED extBacklog
             ELSE /\ extBacklog' = [extBacklog EXCEPT ![w] = c.backlog]
                  /\ UNCHANGED intBacklog
    /\ UNCHANGED <<store, outbox, ntSeq, clock, uowState, txEvents, txOutbox, aggs,
                   loaded, batch, err, done, scopes, running>>

BacklogKinds == {"internal_backlogs", "external_backlogs"}

\* concurrent tasks, each running handlers on users against the one store
Next ==
    \E w \in Writers :
        \/ Enter(w)
        \/ \E id \in UserIds : Create(w, id, OneRoleId, OneUser)
        \/ \E id \in UserIds : Trigger(w, id, ConcurrentClasses, OneRoleId)
        \/ \E id \in UserIds : Get(w, id, OneRoleId)
        \/ Add(w)
        \/ Commit(w)
        \/ Exit(w)

Spec == Init /\ [][Next]_vars

\* one task running handlers one after the other
NextAgg ==
    \E w \in {"w1"} :
        \/ Enter(w)
        \/ \E id \in AggIds : Create(w, id, RoleIds, OneUser)
        \/ \E id \in AggIds : Trigger(w, id, TriggerClasses, RoleIds)
        \/ \E id \in AggIds : Get(w, id, RoleIds)
        \/ Add(w)
        \/ Commit(w)
        \/ Exit(w)
        \/ \E kind \in BacklogKinds : CollectBacklogs(w, kind)

SpecAgg == Init /\ [][NextAgg]_vars

\* SqlAlchemyUnitOfWork.__aexit__ in a caller that keeps its aggregates:
\* session.rollback(), session.close(); the aggregates stay as they are
Leave(w) ==
    /\ UNCHANGED <<busVars, pureVars>>
    /\ uowState[w] \in {"open", "failed"}
    /\ Runs(w) /\ Awaits(w)
    /\ uowState' = [uowState EXCEPT ![w] = "idle"]
    /\ store' = store \o Rollback(txEvents[Session(w)])
    /\ outbox' = outbox \o Rollback(txOutbox[Session(w)])
    /\ txEvents' = [txEvents EXCEPT ![Session(w)] = <<>>]
    /\ txOutbox' = [txOutbox EXCEPT ![Session(w)] = <<>>]
    /\ Forget(w)
    /\ UNCHANGED <<ntSeq, clock, aggs, extBacklog, intBacklog, batch, err, done,
                   scopes, collected>>

\* one task that works on its aggregates over several units of work
NextHold ==
    \E w \in {"w1"} :
        \/ Enter(w)
        \/ \E id \in AggIds : Create(w, id, OneRoleId, OneUser)
        \/ \E id \in AggIds : Trigger(w, id, TriggerClasses, OneRoleId)
        \/ \E id \in AggIds : Get(w, id, OneRoleId)
        \/ Add(w)
        \/ Commit(w)
        \/ Leave(w)
        \/ Exit(w)

SpecHold == Init /\ [][NextHold]_vars

\* ------------------------------------------------------------ message bus
\* what no step of handle() itself touches, and what belongs to the unit of
\* work handle() makes
storeVars == <<pureVars, store, outbox, ntSeq, clock, uowState, txEvents, txOutbox, aggs,
               loaded, scopes, running, collected>>
scopeVars == <<extBacklog, batch, err, done>>

\* the events a handler can leave in the internal backlog of the event store
\* by adding aggregates: new messages, numbered from n
ProducedBy(parent, n) ==
    {<<>>} \cup
    UNION {{[i \in 1..k |-> Message(n + i - 1, "Event", types[i], parent)] :
               types \in [1..k -> EventTypes]} :
           k \in {j \in 1..MaxProduced : n + j - 1 <= MaxMessages}}

\* what a handler leaves of the unit of work: entering it makes a new event
\* store with empty backlogs, and only a handler that entered it can add
CallHandler(w, entered, produced) ==
    [uow |-> IF entered THEN "entered" ELSE busUow[w],
     backlog |-> IF entered THEN produced ELSE intBacklog[w]]

\* the pending internal events of a unit of work as the queue holds them
RECURSIVE AsMessages(_, _, _)
AsMessages(events, n, parent) ==
    IF events = <<>> THEN <<>>
    ELSE <<Message(n, "Event", Head(events).cls, parent)>>
         \o AsMessages(Tail(events), n + 1, parent)

\* MessageBus.handle(message): the queue starts with the message, a new unit
\* of work, no results
Handle(w, seeds) ==
    /\ busPc[w] = "idle"
    /\ uowState[w] = "idle"
    /\ Runs(w)
    /\ nextMsg <= MaxMessages
    /\ \E seed \in seeds :
         LET m == Message(nextMsg, seed[1], seed[2], 0)
         IN /\ queue' = [queue EXCEPT ![w] = <<m>>]
            /\ enqueued' = [enqueued EXCEPT ![w] = <<m>>]
            /\ message' = [message EXCEPT ![w] = m]
    /\ results' = [results EXCEPT ![w] = <<>>]
    /\ dispatched' = [dispatched EXCEPT ![w] = <<>>]
    /\ invoked' = [invoked EXCEPT ![w] = <<>>]
    /\ handlerIdx' = [handlerIdx EXCEPT ![w] = 0]
    /\ busPc' = [busPc EXCEPT ![w] = "loop"]
    /\ busErr' = [busErr EXCEPT ![w] = "none"]
    /\ busUow' = [busUow EXCEPT ![w] = "new"]
    /\ nextMsg' = nextMsg + 1
    /\ intBacklog' = [intBacklog EXCEPT ![w] = <<>>]
    /\ extBacklog' = [extBacklog EXCEPT ![w] = <<>>]
    /\ batch' = [batch EXCEPT ![w] = NoBatch]
    /\ err' = [err EXCEPT ![w] = "none"]
    /\ done' = [done EXCEPT ![w] = FALSE]
    /\ UNCHANGED storeVars

\* while queue: message = queue.popleft(), and the match on its kind
PopMessage(w) ==
    /\ busPc[w] = "loop"
    /\ Runs(w)
    /\ queue[w] # <<>>
    /\ LET p == PopLeft(queue[w])
       IN /\ message' = [message EXCEPT ![w] = p.message]
          /\ queue' = [queue EXCEPT ![w] = p.queue]
          /\ dispatched' = [dispatched EXCEPT ![w] = Append(@, p.message)]
          /\ busPc' = [busPc EXCEPT ![w] =
                          IF p.message.kind = "Event" THEN "event"
                          ELSE IF p.message.kind = "Command" THEN "command"
                          ELSE "other"]
    /\ handlerIdx' = [handlerIdx EXCEPT ![w] = 1]
    /\ invoked' = [invoked EXCEPT ![w] = <<>>]
    /\ UNCHANGED <<results, busErr, busUow, enqueued, nextMsg>>
    /\ UNCHANGED <<storeVars, scopeVars, intBacklog>>

\* the queue is empty: handle() returns the results
Return(w) ==
    /\ busPc[w] = "loop"
    /\ Runs(w)
    /\ queue[w] = <<>>
    /\ busPc' = [busPc EXCEPT ![w] = "idle"]
    /\ UNCHANGED <<queue, results, message, handlerIdx, busErr, busUow,
                   enqueued, dispatched, invoked, nextMsg>>
    /\ UNCHANGED <<storeVars, scopeVars, intBacklog>>

\* case _: the message is neither an event nor a command, raise Exception
HandleOther(w) ==
    /\ busPc[w] = "other"
    /\ Runs(w)
    /\ busPc' = [busPc EXCEPT ![w] = "idle"]
    /\ busErr' = [busErr EXCEPT ![w] = "Exception"]
    /\ UNCHANGED <<queue, results, message, handlerIdx, busUow,
                   enqueued, dispatched, invoked, nextMsg>>
    /\ UNCHANGED <<storeVars, scopeVars, intBacklog>>

\* a handle_event that passes over an event without handlers
HandleEventUnregisteredSkips(w) ==
    /\ busPc[w] = "event"
    /\ Runs(w)
    /\ message[w].type \notin DOMAIN EVENT_HANDLERS
    /\ busPc' = [busPc EXCEPT ![w] = "loop"]
    /\ UNCHANGED <<queue, results, message, handlerIdx, busUow, busErr,
                   enqueued, dispatched, invoked, nextMsg>>
    /\ UNCHANGED <<storeVars, scopeVars, intBacklog>>

\* handle_event for a class that has no entry in event_handlers: the lookup
\* raises KeyError, which leaves handle()
HandleEventUnregistered(w) ==
    /\ busPc[w] = "event"
    /\ Runs(w)
    /\ message[w].type \notin DOMAIN EVENT_HANDLERS
    /\ busPc' = [busPc EXCEPT ![w] = "idle"]
    /\ busErr' = [busErr EXCEPT ![w] = "KeyError"]
    /\ UNCHANGED <<queue, results, message, handlerIdx, busUow,
                   enqueued, dispatched, invoked, nextMsg>>
    /\ UNCHANGED <<storeVars, scopeVars, intBacklog>>

\* where handle_event goes after the handler at handlerIdx
AfterHandler(w) ==
    IF handlerIdx[w] + 1 > EVENT_HANDLERS[message[w].type] THEN "loop" ELSE "event"

\* what the handlers of the message being handled did, in order
Outcome(kind, event) == [outcome |-> kind, event |-> event]

\* handle_event, one handler: it returns, and the internal backlog is put on
\* the queue (an exception of collect_backlogs is logged like any other)
HandleEventReturns(w) ==
    /\ busPc[w] = "event"
    /\ Runs(w)
    /\ message[w].type \in DOMAIN EVENT_HANDLERS
    /\ \E entered \in BOOLEAN, res \in BOOLEAN :
       \E produced \in IF entered THEN ProducedBy(message[w].id, nextMsg) ELSE {<<>>} :
         LET h == CallHandler(w, entered, produced)
             c == collect_backlogs(h.uow, h.backlog)
         IN /\ busUow' = [busUow EXCEPT ![w] = h.uow]
            /\ intBacklog' = [intBacklog EXCEPT ![w] = c.backlog]
            /\ queue' = [queue EXCEPT ![w] = Extend(@, c.items)]
            /\ enqueued' = [enqueued EXCEPT ![w] = @ \o c.items]
            /\ results' = [results EXCEPT ![w] =
                              IF c.err = "none" /\ res THEN Append(@, message[w].id)
                              ELSE @]
            /\ invoked' = [invoked EXCEPT ![w] =
                              Append(@, Outcome(IF c.err = "none" THEN "return"
                                                ELSE "raise", NoMessage))]
            /\ nextMsg' = nextMsg + Len(produced)
    /\ busPc' = [busPc EXCEPT ![w] = AfterHandler(w)]
    /\ handlerIdx' = [handlerIdx EXCEPT ![w] = @ + 1]
    /\ UNCHANGED <<message, busErr, dispatched>>
    /\ UNCHANGED <<storeVars, scopeVars>>

\* the messages a StopSentinel can carry as e.event: none, the event being
\* handled, or a new event or command
Fallbacks(w, n) ==
    {NoMessage} \cup
    IF n <= MaxMessages
    THEN {message[w], Message(n, "Event", message[w].type, message[w].id),
          Message(n, "Command", "C", message[w].id)}
    ELSE {}

\* a handle_event that goes on to the next handler after a StopSentinel
HandleEventStopsContinues(w) ==
    /\ busPc[w] = "event"
    /\ Runs(w)
    /\ message[w].type \in DOMAIN EVENT_HANDLERS
    /\ \E event \in Fallbacks(w, nextMsg) :
         LET items == IF event = NoMessage THEN <<>> ELSE <<event>>
         IN /\ queue' = [queue EXCEPT ![w] = Extend(@, items)]
            /\ enqueued' = [enqueued EXCEPT ![w] = @ \o items]
            /\ invoked' = [invoked EXCEPT ![w] = Append(@, Outcome("stop", event))]
            /\ nextMsg' = nextMsg + Len(items)
    /\ busPc' = [busPc EXCEPT ![w] = AfterHandler(w)]
    /\ handlerIdx' = [handlerIdx EXCEPT ![w] = @ + 1]
    /\ UNCHANGED <<results, message, busErr, busUow, dispatched>>
    /\ UNCHANGED <<storeVars, scopeVars, intBacklog>>

\* handle_event, one handler: it raises StopSentinel; e.event, if there is
\* one, is appended to the queue and the loop over the handlers ends
HandleEventStops(w) ==
    /\ busPc[w] = "event"
    /\ Runs(w)
    /\ message[w].type \in DOMAIN EVENT_HANDLERS
    /\ \E entered \in BOOLEAN :
       \E produced \in IF entered THEN ProducedBy(message[w].id, nextMsg) ELSE {<<>>} :
       \E event \in Fallbacks(w, nextMsg + Len(produced)) :
         LET h == CallHandler(w, entered, produced)
             items == IF event = NoMessage THEN <<>> ELSE <<event>>
         IN /\ busUow' = [busUow EXCEPT ![w] = h.uow]
            /\ intBacklog' = [intBacklog EXCEPT ![w] = h.backlog]
            /\ queue' = [queue EXCEPT ![w] = Extend(@, items)]
            /\ enqueued' = [enqueued EXCEPT ![w] = @ \o items]
            /\ invoked' = [invoked EXCEPT ![w] = Append(@, Outcome("stop", event))]
            /\ nextMsg' = nextMsg + Len(produced) + Len(items)
    /\ busPc' = [busPc EXCEPT ![w] = "loop"]
    /\ UNCHANGED <<results, message, handlerIdx, busErr, dispatched>>
    /\ UNCHANGED <<storeVars, scopeVars>>

\* a handle_event that lets the exception of a handler out
HandleEventFailsRaises(w) ==
    /\ busPc[w] = "event"
    /\ Runs(w)
    /\ message[w].type \in DOMAIN EVENT_HANDLERS
    /\ invoked' = [invoked EXCEPT ![w] = Append(@, Outcome("raise", NoMessage))]
    /\ busPc' = [busPc EXCEPT ![w] = "idle"]
    /\ busErr' = [busErr EXCEPT ![w] = "Exception"]
    /\ UNCHANGED <<queue, results, message, handlerIdx, busUow, enqueued,
                   dispatched, nextMsg>>
    /\ UNCHANGED <<storeVars, scopeVars, intBacklog>>

\* handle_event, one handler: it raises another exception, which is logged
HandleEventFails(w) ==
    /\ busPc[w] = "event"
    /\ Runs(w)
    /\ message[w].type \in DOMAIN EVENT_HANDLERS
    /\ \E entered \in BOOLEAN :
       \E produced \in IF entered THEN ProducedBy(message[w].id, nextMsg) ELSE {<<>>} :
         LET h == CallHandler(w, entered, produced)
         IN /\ busUow' = [busUow EXCEPT ![w] = h.uow]
            /\ intBacklog' = [intBacklog EXCEPT ![w] = h.backlog]
            /\ nextMsg' = nextMsg + Len(produced)
    /\ invoked' = [invoked EXCEPT ![w] = Append(@, Outcome("raise", NoMessage))]
    /\ busPc' = [busPc EXCEPT ![w] = AfterHandler(w)]
    /\ handlerIdx' = [handlerIdx EXCEPT ![w] = @ + 1]
    /\ UNCHANGED <<queue, results, message, busErr, enqueued, dispatched>>
    /\ UNCHANGED <<storeVars, scopeVars>>

\* a handle_command that appends nothing to the results
CommandReturnedDropsResult(w, h, used) ==
    LET c == collect_backlogs(h.uow, h.backlog)
    IN /\ busUow' = [busUow EXCEPT ![w] = h.uow]
       /\ intBacklog' = [intBacklog EXCEPT ![w] = c.backlog]
       /\ queue' = [queue EXCEPT ![w] = Extend(@, c.items)]
       /\ enqueued' = [enqueued EXCEPT ![w] = @ \o c.items]
       /\ nextMsg' = nextMsg + used
       /\ busPc' = [busPc EXCEPT ![w] = "loop"]
       /\ UNCHANGED <<results, busErr>>
       /\ UNCHANGED <<message, handlerIdx, dispatched, invoked>>
       /\ UNCHANGED <<storeVars, scopeVars>>

\* handle_command once the handler has returned, h being what the handler
\* left of the unit of work and used the number of messages it constructed:
\* the internal backlog is put on the queue and the result on the results; an
\* exception of collect_backlogs is raised again and leaves handle()
CommandReturned(w, h, used) ==
    LET c == collect_backlogs(h.uow, h.backlog)
    IN /\ busUow' = [busUow EXCEPT ![w] = h.uow]
       /\ intBacklog' = [intBacklog EXCEPT ![w] = c.backlog]
       /\ queue' = [queue EXCEPT ![w] = Extend(@, c.items)]
       /\ enqueued' = [enqueued EXCEPT ![w] = @ \o c.items]
       /\ nextMsg' = nextMsg + used
       /\ IF c.err = "none"
          THEN /\ results' = [results EXCEPT ![w] = Append(@, message[w].id)]
               /\ busPc' = [busPc EXCEPT ![w] = "loop"]
               /\ UNCHANGED busErr
          ELSE /\ busPc' = [busPc EXCEPT ![w] = "idle"]
               /\ busErr' = [busErr EXCEPT ![w] = c.err]
               /\ UNCHANGED results
       /\ UNCHANGED <<message, handlerIdx, dispatched, invoked>>
       /\ UNCHANGED <<storeVars, scopeVars>>

\* a handle_command that logs the exception of the handler and goes on
CommandRaisedContinues(w, h, used, e) ==
    /\ busUow' = [busUow EXCEPT ![w] = h.uow]
    /\ intBacklog' = [intBacklog EXCEPT ![w] = h.backlog]
    /\ nextMsg' = nextMsg + used
    /\ busPc' = [busPc EXCEPT ![w] = "loop"]
    /\ busErr' = [busErr EXCEPT ![w] = e]
    /\ UNCHANGED <<queue, results, message, handlerIdx, enqueued, dispatched, invoked>>
    /\ UNCHANGED <<storeVars, scopeVars>>

\* handle_command once the handler has raised e: the exception is logged and
\* raised again
CommandRaised(w, h, used, e) ==
    /\ busUow' = [busUow EXCEPT ![w] = h.uow]
    /\ intBacklog' = [intBacklog EXCEPT ![w] = h.backlog]
    /\ nextMsg' = nextMsg + used
    /\ busPc' = [busPc EXCEPT ![w] = "idle"]
    /\ busErr' = [busErr EXCEPT ![w] = e]
    /\ UNCHANGED <<queue, results, message, handlerIdx, enqueued, dispatched, invoked>>
    /\ UNCHANGED <<storeVars, scopeVars>>

\* handle_command for a handler given by its outcome: it returns
HandleCommandReturns(w) ==
    /\ busPc[w] = "command"
    /\ Runs(w)
    /\ message[w].type \in TestCommands
    /\ \E entered \in BOOLEAN :
       \E produced \in IF entered THEN ProducedBy(message[w].id, nextMsg) ELSE {<<>>} :
         CommandReturned(w, CallHandler(w, entered, produced), Len(produced))

\* handle_command for a handler given by its outcome: it raises
HandleCommandFails(w) ==
    /\ busPc[w] = "command"
    /\ Runs(w)
    /\ message[w].type \in TestCommands
    /\ \E entered \in BOOLEAN :
       \E produced \in IF entered THEN ProducedBy(message[w].id, nextMsg) ELSE {<<>>} :
         CommandRaised(w, CallHandler(w, entered, produced), Len(produced), "Exception")

\* handle_command for a class that has no entry in command_handlers: the
\* lookup raises KeyError inside the try, which is logged and raised again
HandleCommandUnregistered(w) ==
    /\ busPc[w] = "command"
    /\ Runs(w)
    /\ message[w].type \notin TestCommands \cup COMMAND_HANDLERS
    /\ CommandRaised(w, [uow |-> busUow[w], backlog |-> intBacklog[w]], 0, "KeyError")

\* the messages handed to a bus whose handlers were registered by its caller:
\* commands, events, and an object that is neither
TestSeeds ==
    {<<"Command", c>> : c \in CommandTypes} \cup {<<"Event", t>> : t \in EventTypes}
    \cup {<<"Other", "object">>}

\* one call of handle() at a time on a bus with registered test handlers
NextBus ==
    \E w \in {"w1"} :
        \/ Handle(w, TestSeeds)
        \/ PopMessage(w)
        \/ Return(w)
        \/ HandleEventUnregistered(w)
        \/ HandleEventReturns(w)
        \/ HandleEventStops(w)
        \/ HandleEventFails(w)
        \/ HandleCommandReturns(w)
        \/ HandleCommandFails(w)
        \/ HandleCommandUnregistered(w)
        \/ HandleOther(w)

SpecBus == Init /\ [][NextBus]_vars

\* what a caller of the service hands to handle(): a command, or an object
\* that is no message; the events come from the handlers
LoopSeeds == {<<"Command", c>> : c \in CommandTypes} \cup {<<"Other", "object">>}

\* the first call of handle() on the bus
HandleOnce(w) ==
    /\ nextMsg = 1
    /\ Handle(w, LoopSeeds)

\* one call of handle(), followed to its end
NextLoop ==
    \E w \in {"w1"} :
        \/ HandleOnce(w)
        \/ PopMessage(w)
        \/ Return(w)
        \/ HandleEventUnregistered(w)
        \/ HandleEventReturns(w)
        \/ HandleEventStops(w)
        \/ HandleEventFails(w)
        \/ HandleCommandReturns(w)
        \/ HandleCommandFails(w)
        \/ HandleCommandUnregistered(w)
        \/ HandleOther(w)

\* handle() is one coroutine: once called it runs its loop, and every handler
\* it awaits returns or raises, so a step that can be taken is taken
SpecLoop == Init /\ [][NextLoop]_vars /\ WF_vars(NextLoop)

\* ------------------------------------------- message bus of the service
\* the run of a task is inside the handler of a command of the given class
InHandler(w, type) == busPc[w] = "command" /\ message[w].type = type

\* the handler has not entered the unit of work yet
HandlerStarts(w) == uowState[w] = "idle" /\ ~done[w] /\ err[w] = "none"

\* the handler has left the unit of work after its commit
HandlerReturned(w) == uowState[w] = "idle" /\ done[w]

\* the handler has left the unit of work with an exception
HandlerRaised(w) == uowState[w] = "idle" /\ ~done[w] /\ err[w] # "none"

\* IAMService.create_user: async with uow: User.create, users.add, commit
create_user(w) ==
    /\ InHandler(w, "CreateUser")
    /\ \/ HandlerStarts(w) /\ Enter(w)
       \/ /\ \A id \in AggIds : aggs[w][id] = None
          /\ \E id \in UserIds : Create(w, id, OneRoleId, CreateUserArgs)
       \/ Add(w)
       \/ batch[w].called /\ Commit(w)
       \/ (done[w] \/ uowState[w] = "failed") /\ Exit(w)

\* IAMService.request_create_group: async with uow: users.get, user.execute,
\* users.add, commit
request_create_group(w) ==
    /\ InHandler(w, "RequestCreateGroup")
    /\ \/ HandlerStarts(w) /\ Enter(w)
       \/ \E id \in UserIds : Get(w, id, OneRoleId)
       \/ \E id \in UserIds :
            /\ aggs[w][id] # None
            /\ aggs[w][id].events = <<>>
            /\ Trigger(w, id, {"User.CreateGroupRequested"}, OneRoleId)
       \/ /\ \E id \in UserIds : aggs[w][id] # None /\ aggs[w][id].events # <<>>
          /\ Add(w)
       \/ batch[w].called /\ Commit(w)
       \/ (done[w] \/ uowState[w] = "failed") /\ Exit(w)

\* handle_command for a handler of the service that has returned
ServiceCommandReturns(w) ==
    /\ busPc[w] = "command"
    /\ Runs(w)
    /\ message[w].type \in COMMAND_HANDLERS
    /\ HandlerReturned(w)
    /\ nextMsg + Len(intBacklog[w]) - 1 <= MaxMessages
    /\ CommandReturned(w, [uow |-> "entered",
                           backlog |-> AsMessages(intBacklog[w], nextMsg, message[w].id)],
                       Len(intBacklog[w]))

\* handle_command for a handler of the service that has raised
ServiceCommandFails(w) ==
    /\ busPc[w] = "command"
    /\ Runs(w)
    /\ message[w].type \in COMMAND_HANDLERS
    /\ HandlerRaised(w)
    /\ CommandRaised(w, [uow |-> "entered", backlog |-> intBacklog[w]], 0,
                     IF err[w] = "AggregateNotFoundError" THEN "ObjectNotFound"
                     ELSE err[w])

\* the commands the service has handlers for
ServiceSeeds == {<<"Command", c>> : c \in COMMAND_HANDLERS}

\* concurrent calls of handle() on the bus of the service, one per task
NextRun ==
    \E w \in Writers :
        \/ Handle(w, ServiceSeeds)
        \/ PopMessage(w)
        \/ Return(w)
        \/ HandleEventUnregistered(w)
        \/ create_user(w)
        \/ request_create_group(w)
        \/ ServiceCommandReturns(w)
        \/ ServiceCommandFails(w)

SpecRun == Init /\ [][NextRun]_vars

\* ------------------------- message bus with a handler that need not commit
\* a command handler registered by the caller of the bus: inside one
\* async with uow it creates or loads users, executes commands on them and
\* adds them; it may commit, and it may leave without
handler_in_uow(w) ==
    /\ InHandler(w, "C")
    /\ \/ HandlerStarts(w) /\ ~batch[w].called /\ Enter(w)
       \/ \E id \in UserIds : Create(w, id, OneRoleId, OneUser)
       \/ \E id \in UserIds : Get(w, id, OneRoleId)
       \/ \E id \in UserIds : Trigger(w, id, {"User.CreateGroupRequested"}, OneRoleId)
       \/ Add(w)
       \/ batch[w].called /\ Commit(w)
       \/ (batch[w].called \/ uowState[w] = "failed") /\ Exit(w)

\* handle_command for that handler once it has left the unit of work and
\* returned
FlowCommandReturns(w) ==
    /\ busPc[w] = "command"
    /\ Runs(w)
    /\ message[w].type = "C"
    /\ uowState[w] = "idle" /\ batch[w].called /\ err[w] = "none"
    /\ nextMsg + Len(intBacklog[w]) - 1 <= MaxMessages
    /\ CommandReturned(w, [uow |-> "entered",
                           backlog |-> AsMessages(intBacklog[w], nextMsg, message[w].id)],
                       Len(intBacklog[w]))

\* handle_command for that handler once it has left the unit of work with an
\* exception
FlowCommandFails(w) ==
    /\ busPc[w] = "command"
    /\ Runs(w)
    /\ message[w].type = "C"
    /\ uowState[w] = "idle" /\ err[w] # "none"
    /\ CommandRaised(w, [uow |-> "entered", backlog |-> intBacklog[w]], 0, err[w])

\* one call of handle() at a time on the bus with that handler
NextFlow ==
    \E w \in {"w1"} :
        \/ Handle(w, {<<"Command", c>> : c \in TestCommands})
        \/ PopMessage(w)
        \/ Return(w)
        \/ HandleEventUnregistered(w)
        \/ handler_in_uow(w)
        \/ FlowCommandReturns(w)
        \/ FlowCommandFails(w)

SpecFlow == Init /\ [][NextFlow]_vars

\* ------------------------------------------- message bus built by Bootstrap
\* a handler as the bus sees it: a method of a service class (prep_cls has set
\* uow_required on its function) or what render_injected_function makes of it
Method(name, uow) == [callable |-> "method", name |-> name, uow_required |-> uow]

\* render_injected_function: partial(handler, **deps), uow_required copied
render_injected_function(handler) == [handler EXCEPT !.callable = "partial"]

\* inject_dependencies: the dependencies the handler names, bound by
\* render_injected_function
inject_dependencies(handler) == render_injected_function(handler)

\* the handlers test_bootstrapper registers: test_command and test_event both
\* declare uow
BootCommandHandlers == [t \in TestCommands |-> Method("test_command", TRUE)]
BootEventHandlers ==
    [t \in DOMAIN EVENT_HANDLERS |->
        [i \in 1..EVENT_HANDLERS[t] |-> Method("test_event", TRUE)]]

\* Bootstrap.__call__: every handler of both tables goes through
\* inject_dependencies
Bootstrap(command_handlers, event_handlers) ==
    [command_handlers |->
        [t \in DOMAIN command_handlers |-> inject_dependencies(command_handlers[t])],
     event_handlers |->
        [t \in DOMAIN event_handlers |->
            [i \in 1..Len(event_handlers[t]) |->
                inject_dependencies(event_handlers[t][i])]]]

\* the bus of test_bootstrapper
BootBus == Bootstrap(BootCommandHandlers, BootEventHandlers)

\* handle_event's test "uow" in handler.__code__.co_varnames: a bound method
\* hands __code__ of its function, a functools.partial has no __code__
UowInCoVarnames(handler) ==
    IF handler.callable = "partial" THEN [err |-> "AttributeError", uow |-> FALSE]
    ELSE [err |-> "none", uow |-> handler.uow_required]

\* handle_command's test getattr(handler, "uow_required", False)
UowRequired(handler) == handler.uow_required

\* handle_event of the bus Bootstrap built, one handler: the test of
\* co_varnames raises before the handler is called, and the exception is
\* logged like one of the handler
HandleEventInjected(w) ==
    /\ busPc[w] = "event"
    /\ Runs(w)
    /\ message[w].type \in DOMAIN BootBus.event_handlers
    /\ UowInCoVarnames(BootBus.event_handlers[message[w].type][handlerIdx[w]]).err # "none"
    /\ invoked' = [invoked EXCEPT ![w] = Append(@, Outcome("uncalled", NoMessage))]
    /\ busPc' = [busPc EXCEPT ![w] = AfterHandler(w)]
    /\ handlerIdx' = [handlerIdx EXCEPT ![w] = @ + 1]
    /\ UNCHANGED <<queue, results, message, busErr, busUow, enqueued, dispatched, nextMsg>>
    /\ UNCHANGED <<storeVars, scopeVars, intBacklog>>

\* handle_command of the bus Bootstrap built: the handler is called with the
\* unit of work, which it enters, and returns or raises
HandleCommandInjected(w) ==
    /\ busPc[w] = "command"
    /\ Runs(w)
    /\ message[w].type \in DOMAIN BootBus.command_handlers
    /\ UowRequired(BootBus.command_handlers[message[w].type])
    /\ \E produced \in ProducedBy(message[w].id, nextMsg) :
         \/ CommandReturned(w, CallHandler(w, TRUE, produced), Len(produced))
         \/ CommandRaised(w, CallHandler(w, TRUE, produced), Len(produced), "Exception")

\* the messages the bus Bootstrap built is handed: the command of the test, or
\* an event
BootSeeds ==
    {<<"Command", c>> : c \in TestCommands} \cup {<<"Event", t>> : t \in EventTypes}

\* one call of handle() at a time on the bus Bootstrap built
NextBoot ==
    \E w \in {"w1"} :
        \/ Handle(w, BootSeeds)
        \/ PopMessage(w)
        \/ Return(w)
        \/ HandleEventUnregistered(w)
        \/ HandleEventInjected(w)
        \/ HandleCommandInjected(w)

SpecBoot == Init /\ [][NextBoot]_vars

\* ------------------------------- message bus handed a handler without uow
\* a bus whose command handler does not declare uow (prep_cls sets its
\* uow_required to False); its event handlers are methods that declare it
PlainBus ==
    [command_handlers |-> [t \in TestCommands |-> Method("command_without_uow", FALSE)],
     event_handlers |-> BootEventHandlers]

\* handle_command, the handler called with the unit of work only if
\* uow_required: a handler that is not handed the unit of work cannot enter it
HandleCommandPlain(w) ==
    /\ busPc[w] = "command"
    /\ Runs(w)
    /\ message[w].type \in DOMAIN PlainBus.command_handlers
    /\ \E entered \in IF UowRequired(PlainBus.command_handlers[message[w].type])
                      THEN BOOLEAN ELSE {FALSE} :
       \E produced \in IF entered THEN ProducedBy(message[w].id, nextMsg) ELSE {<<>>} :
         \/ CommandReturned(w, CallHandler(w, entered, produced), Len(produced))
         \/ CommandRaised(w, CallHandler(w, entered, produced), Len(produced), "Exception")

\* one call of handle() at a time on that bus
NextPlain ==
    \E w \in {"w1"} :
        \/ Handle(w, BootSeeds)
        \/ PopMessage(w)
        \/ Return(w)
        \/ HandleEventUnregistered(w)
        \/ HandleEventReturns(w)
        \/ HandleEventStops(w)
        \/ HandleEventFails(w)
        \/ HandleCommandPlain(w)

SpecPlain == Init /\ [][NextPlain]_vars

\* ------------------------------------------------------- replay on its own
\* The rows one aggregate id can have: _create_ stamps the Created event with
\* version 1, _trigger_ stamps every other event with a version above 1, and
\* the unique index keeps one row per version.
LogRows(id) ==
    {[nt_id |-> 1] @@ from_domain_event_to_stored_event(
        [id |-> UUID(id), version |-> 1, timestamp |-> 1,
         externally_notifiable |-> FALSE, internally_notifiable |-> FALSE,
         cls |-> CreatedOf(KindOf(id)),
         arg |-> CreatedArg(KindOf(id), CHOOSE kw \in CreateArgs(KindOf(id), OneUser) : TRUE)])}
    \cup
    {[nt_id |-> v] @@ from_domain_event_to_stored_event(
        [id |-> UUID(id), version |-> v, timestamp |-> v,
         externally_notifiable |-> FALSE,
         internally_notifiable |-> InternalDefault(cls),
         cls |-> cls,
         arg |-> IF cls = "User.CreateGroupRequested" THEN UUID("g1")
                 ELSE IF cls = "Group.GroupRoleCreated"
                 THEN [role_name |-> "manager", group_permissions |-> <<2>>]
                 ELSE <<1>>]) :
        v \in 2..MaxReplay, cls \in EventsOf(KindOf(id)) \cap TriggerClasses}

\* any rows of such a log, in any order
RowsOfLog(id) ==
    {T \in SUBSET LogRows(id) : \A a, b \in T : a # b => a.version # b.version}

ReplayInputs == UNION {UNION {Orderings(S) : S \in RowsOfLog(id)} : id \in AggIds}

InitReplay ==
    /\ BusInit
    /\ PureInit
    /\ store = <<>>
    /\ outbox = <<>>
    /\ ntSeq = 0
    /\ clock = 0
    /\ uowState = [w \in Writers |-> "idle"]
    /\ txEvents = [w \in Writers |-> <<>>]
    /\ txOutbox = [w \in Writers |-> <<>>]
    /\ aggs = [w \in Writers |-> [id \in AggIds |-> None]]
    /\ extBacklog = [w \in Writers |-> <<>>]
    /\ intBacklog = [w \in Writers |-> <<>>]
    /\ \E fetched \in ReplayInputs :
         loaded = [w \in Writers |->
                     IF w = "w1" /\ fetched # <<>>
                     THEN [NoLoad EXCEPT !.id = fetched[1].id, !.fetched = fetched]
                     ELSE NoLoad]
    /\ batch = [w \in Writers |-> NoBatch]
    /\ err = [w \in Writers |-> "none"]
    /\ done = [w \in Writers |-> FALSE]
    /\ scopes = 0
    /\ running = "none"
    /\ collected = [w \in Writers |-> NoCollect]

\* the replay has run on the rows in loaded[w]
Replayed(w) == loaded[w].err # "none" \/ loaded[w].applied > 0

\* the loop of EventStoreProxy._get on the rows handed in
Replay(w) ==
    /\ UNCHANGED <<busVars, pureVars>>
    /\ loaded[w].fetched # <<>>
    /\ ~Replayed(w)
    /\ \E rnds \in DrawSeqs([i \in 1..Len(loaded[w].fetched) |->
                 from_stored_event_to_domain_event(loaded[w].fetched[i])], RoleIds) :
         LET r == ProxyGet(loaded[w].fetched, rnds)
         IN loaded' = [loaded EXCEPT ![w] =
                          [@ EXCEPT !.err = r.err, !.agg = r.agg, !.applied = r.applied]]
    /\ UNCHANGED <<store, outbox, ntSeq, clock, uowState, txEvents, txOutbox, aggs,
                   extBacklog, intBacklog, batch, err, done, scopes, running,
                   collected>>

NextReplay == \E w \in Writers : Replay(w)

SpecReplay == InitReplay /\ [][NextReplay]_vars

\* -------------------------------------------------------------- transcoder
\* Python objects, by type. An object of a registered type is known by the
\* text its transcoding writes (hex, str(), isoformat()).
PyStr(s) == [type |-> "str", v |-> s]
PyInt(n) == [type |-> "int", n |-> n]
PyDict(items) == [type |-> "dict", items |-> items]
PyList(elems) == [type |-> "list", elems |-> elems]
PyObject(type, text) == [type |-> type, text |-> text]
PyRaise(exc) == [type |-> "raised", exc |-> exc]

\* JSON documents as json.JSONEncoder writes them: one text per tree
JsonString(s) == [type |-> "string", v |-> s]
JsonNumber(n) == [type |-> "number", n |-> n]
JsonObject(members) == [type |-> "object", members |-> members]
JsonArray(elements) == [type |-> "array", elements |-> elements]

\* the texts the constructors UUID(), Decimal() and fromisoformat() accept
HexTexts == {"0a"}
DecimalTexts == {"1.10"}
IsoTexts == {"2026-01-01T00:00:00"}

\* the classes registered with @transcoder.register, in order
Transcodings ==
    <<[type |-> "uuid.UUID", name |-> "uuid_hex", makes |-> "uuid.UUID",
       accepts |-> HexTexts, raises |-> "ValueError"],
      [type |-> "pgproto.UUID", name |-> "pguuid_hex", makes |-> "uuid.UUID",
       accepts |-> HexTexts, raises |-> "ValueError"],
      [type |-> "decimal.Decimal", name |-> "decimal_str", makes |-> "decimal.Decimal",
       accepts |-> DecimalTexts, raises |-> "InvalidOperation"],
      [type |-> "datetime.datetime", name |-> "datetime_iso", makes |-> "datetime.datetime",
       accepts |-> IsoTexts, raises |-> "ValueError"]>>

\* transcoder.types and transcoder.names
TranscoderTypes == {Transcodings[i].type : i \in DOMAIN Transcodings}
TranscoderNames == {Transcodings[i].name : i \in DOMAIN Transcodings}
TranscodingOfType(t) == CHOOSE tr \in {Transcodings[i] : i \in DOMAIN Transcodings} : tr.type = t
TranscodingOfName(n) == CHOOSE tr \in {Transcodings[i] : i \in DOMAIN Transcodings} : tr.name = n

\* Transcoding.encode: o.hex, str(o), o.isoformat()
TranscodingEncode(tr, o) == o.text

\* Transcoding.decode: assert isinstance(d, str), then the constructor
TranscodingDecode(tr, d) ==
    IF d.type # "str" THEN PyRaise("AssertionError")
    ELSE IF d.v \notin tr.accepts THEN PyRaise(tr.raises)
    ELSE PyObject(tr.makes, d.v)

\* the first exception among the results of a sequence of calls, if any
Raised(rs) == \E i \in DOMAIN rs : rs[i].type = "raised"
FirstRaised(rs) == rs[CHOOSE i \in DOMAIN rs : rs[i].type = "raised" /\ \A j \in 1..(i - 1) : rs[j].type # "raised"]

encode_dict(o) ==
    IF o.type \notin TranscoderTypes THEN PyRaise("TypeError")
    ELSE PyDict(<<<<"__type__", PyStr(TranscodingOfType(o.type).name)>>,
                  <<"__data__", PyStr(TranscodingEncode(TranscodingOfType(o.type), o))>>>>)

RECURSIVE JSONEncode(_)
\* json.JSONEncoder(default=self._encode_dict).encode(o)
JSONEncode(o) ==
    CASE o.type = "str" -> JsonString(o.v)
      [] o.type = "int" -> JsonNumber(o.n)
      [] o.type = "list" ->
            LET es == [i \in DOMAIN o.elems |-> JSONEncode(o.elems[i])]
            IN  IF Raised(es) THEN FirstRaised(es) ELSE JsonArray(es)
      [] o.type = "dict" ->
            LET es == [i \in DOMAIN o.items |-> JSONEncode(o.items[i][2])]
            IN  IF Raised(es) THEN FirstRaised(es)
                ELSE JsonObject([i \in DOMAIN o.items |-> <<o.items[i][1], es[i]>>])
      [] OTHER ->
            IF encode_dict(o).type = "raised" THEN encode_dict(o)
            ELSE JSONEncode(encode_dict(o))

decode_dict(d) ==
    IF {d.items[i][1] : i \in DOMAIN d.items} = {"__type__", "__data__"}
    THEN LET t == (CHOOSE i \in DOMAIN d.items : d.items[i][1] = "__type__")
             data == (CHOOSE i \in DOMAIN d.items : d.items[i][1] = "__data__")
         IN  IF d.items[t][2].type \in {"dict", "list"} THEN PyRaise("TypeError")
             ELSE IF d.items[t][2].type # "str" \/ d.items[t][2].v \notin TranscoderNames
                  THEN PyRaise("KeyError")
             ELSE TranscodingDecode(TranscodingOfName(d.items[t][2].v), d.items[data][2])
    ELSE d

RECURSIVE JSONDecode(_)
\* json.JSONDecoder(object_hook=self._decode_dict).decode(s): the hook is
\* called on every object once its members are decoded
JSONDecode(j) ==
    CASE j.type = "string" -> PyStr(j.v)
      [] j.type = "number" -> PyInt(j.n)
      [] j.type = "array" ->
            LET os == [i \in DOMAIN j.elements |-> JSONDecode(j.elements[i])]
            IN  IF Raised(os) THEN FirstRaised(os) ELSE PyList(os)
      [] j.type = "object" ->
            LET os == [i \in DOMAIN j.members |-> JSONDecode(j.members[i][2])]
            IN  IF Raised(os) THEN FirstRaised(os)
                ELSE decode_dict(PyDict([i \in DOMAIN j.members |-> <<j.members[i][1], os[i]>>]))

\* Transcoder.encode and Transcoder.decode; the UTF-8 step is one-to-one
TranscoderEncodeOf(o) == JSONEncode(o)
TranscoderDecodeOf(b) == JSONDecode(b)

\* Python's ==: a driver UUID and a UUID of the same value are equal, dicts
\* are equal whatever the order of their keys
RECURSIVE PyEq(_, _)
PyEq(a, b) ==
    CASE a.type \in {"uuid.UUID", "pgproto.UUID"} ->
            b.type \in {"uuid.UUID", "pgproto.UUID"} /\ a.text = b.text
      [] a.type = "list" ->
            /\ b.type = "list" /\ Len(a.elems) = Len(b.elems)
            /\ \A i \in DOMAIN a.elems : PyEq(a.elems[i], b.elems[i])
      [] a.type = "dict" ->
            /\ b.type = "dict" /\ Len(a.items) = Len(b.items)
            /\ \A i \in DOMAIN a.items : \E k \in DOMAIN b.items :
                  a.items[i][1] = b.items[k][1] /\ PyEq(a.items[i][2], b.items[k][2])
      [] OTHER -> a = b

\* the values the round trip is tried on: JSON primitives, one object of
\* each registered type, and lists and dicts of those
DictKeys == {"k", "__type__", "__data__"}
Scalars ==
    {PyInt(1), PyStr("a"), PyStr("0a"), PyStr("uuid_hex"),
     PyObject("uuid.UUID", "0a"), PyObject("pgproto.UUID", "0a"),
     PyObject("decimal.Decimal", "1.10"),
     PyObject("datetime.datetime", "2026-01-01T00:00:00")}
KeyOrders(n) == {ks \in [1..n -> DictKeys] : \A i, k \in 1..n : i # k => ks[i] # ks[k]}
DictsOf(n) ==
    {PyDict([i \in 1..n |-> <<ks[i], vs[i]>>]) : ks \in KeyOrders(n), vs \in [1..n -> Scalars]}
CodecInputs ==
    Scalars \cup {PyList(<<>>)} \cup {PyList(<<s>>) : s \in Scalars}
            \cup UNION {DictsOf(n) : n \in 0..MaxKeys}
            \cup {PyList(<<d>>) : d \in DictsOf(1)}

InitCodec ==
    /\ BusInit
    /\ UowInit
    /\ MappedIdle /\ PageIdle /\ OutcomeIdle
    /\ \E o \in CodecInputs : codec = [pc |-> "object", o |-> o]

pureRest == <<uowVars, busVars>>

\* b = transcoder.encode(o), and again on what decode returned
TranscoderEncode ==
    /\ \/ /\ codec.pc = "object"
          /\ codec' = [pc |-> "encoded", o |-> codec.o, b |-> TranscoderEncodeOf(codec.o)]
       \/ /\ codec.pc = "decoded"
          /\ codec.d.type # "raised"
          /\ codec' = [pc |-> "again", o |-> codec.o, b |-> codec.b, d |-> codec.d,
                       b2 |-> TranscoderEncodeOf(codec.d)]
    /\ UNCHANGED <<pureRest, mapped, page, outcome>>

\* d = transcoder.decode(b)
TranscoderDecode ==
    /\ codec.pc = "encoded"
    /\ codec.b.type # "raised"
    /\ codec' = [pc |-> "decoded", o |-> codec.o, b |-> codec.b, d |-> TranscoderDecodeOf(codec.b)]
    /\ UNCHANGED <<pureRest, mapped, page, outcome>>

NextCodec == TranscoderEncode \/ TranscoderDecode

SpecCodec == InitCodec /\ [][NextCodec]_vars

\* ---------------------------------------------- the transcoder's registry
\* Transcoder(): types and names start empty
EmptyRegistry == [pc |-> "registry", types |-> [t \in {} |-> 0], names |-> [n \in {} |-> 0]]

\* the transcodings register is handed: the four of mapper.py, and
\* transcodings of the same types under another of the tags
RegisterInputs ==
    {[Transcodings[i] EXCEPT !.name = n] : i \in DOMAIN Transcodings, n \in TranscoderNames}

InitRegistry ==
    /\ BusInit
    /\ UowInit
    /\ MappedIdle /\ PageIdle /\ OutcomeIdle
    /\ codec = EmptyRegistry

\* Transcoder.register: types[transcoding.type] = transcoding,
\* names[transcoding.name] = transcoding
register(registry, transcoding) ==
    [registry EXCEPT !.types = (transcoding.type :> transcoding) @@ @,
                     !.names = (transcoding.name :> transcoding) @@ @]

Register(transcoding) ==
    /\ codec.pc = "registry"
    /\ codec' = register(codec, transcoding)
    /\ UNCHANGED <<pureRest, mapped, page, outcome>>

NextRegistry == \E transcoding \in RegisterInputs : Register(transcoding)

SpecRegistry == InitRegistry /\ [][NextRegistry]_vars

\* ------------------------------------------------------ mapper on its own
\* the field values an event of a class is constructed with
ArgsOf(cls) ==
    IF cls = "User.CreateGroupRequested" THEN {UUID(g) : g \in GroupIds}
    ELSE PayloadsOf(cls)

\* the domain events the mapper is tried on: every event class of the domain,
\* with the ids, versions, flags and field values an aggregate can give it
EventInputs ==
    UNION {{[id |-> UUID(id), version |-> v, timestamp |-> now,
             externally_notifiable |-> ext,
             internally_notifiable |-> InternalDefault(cls),
             cls |-> cls, arg |-> arg] :
               v \in 2..(MaxReplay + 1), now \in 1..MaxEvents, ext \in BOOLEAN,
               arg \in ArgsOf(cls)} :
            id \in AggIds, cls \in UserEvents \cup GroupEvents}
    \cup UNION {{[id |-> UUID(id), version |-> 1, timestamp |-> now,
           externally_notifiable |-> FALSE, internally_notifiable |-> FALSE,
           cls |-> CreatedOf(KindOf(id)), arg |-> CreatedArg(KindOf(id), kw)] :
                 now \in 1..MaxEvents, kw \in CreateArgs(KindOf(id), CreateUserArgs)} :
            id \in AggIds}

InitMapper ==
    /\ BusInit
    /\ UowInit
    /\ CodecIdle /\ PageIdle /\ OutcomeIdle
    /\ \E e \in EventInputs : mapped = [pc |-> "event", event |-> e]

\* stored = mapper.from_domain_event_to_stored_event(event)
MapToStored ==
    /\ mapped.pc = "event"
    /\ mapped' = [pc |-> "stored", event |-> mapped.event,
                  stored |-> from_domain_event_to_stored_event(mapped.event)]
    /\ UNCHANGED <<pureRest, codec, page, outcome>>

\* mapper.from_stored_event_to_domain_event(row), the row being the stored
\* event or the notification the recorder reads back (with its nt_id)
MapToDomain ==
    /\ mapped.pc = "stored"
    /\ \E row \in {mapped.stored} \cup {[nt_id |-> n] @@ mapped.stored : n \in 1..MaxEvents} :
         mapped' = [pc |-> "domain", event |-> mapped.event, stored |-> mapped.stored,
                    row |-> row, back |-> from_stored_event_to_domain_event(row)]
    /\ UNCHANGED <<pureRest, codec, page, outcome>>

NextMapper == MapToStored \/ MapToDomain

SpecMapper == InitMapper /\ [][NextMapper]_vars

\* ---------------------------------------------- application recorder
\* the stored event of an aggregate at a version, as the table holds it
RecorderRow(nt, id, v) ==
    LET cls == IF v = 1 THEN CreatedOf(KindOf(id)) ELSE KindOf(id) \o ".PurchaseMade"
    IN [nt_id |-> nt] @@ from_domain_event_to_stored_event(
           [id |-> UUID(id), version |-> v, timestamp |-> nt,
            externally_notifiable |-> FALSE,
            internally_notifiable |-> InternalDefault(cls),
            cls |-> cls,
            arg |-> IF v = 1
                    THEN CreatedArg(KindOf(id), CHOOSE kw \in CreateArgs(KindOf(id), OneUser) : TRUE)
                    ELSE CHOOSE a \in ArgsOf(cls) : TRUE])

\* The logs the recorder is tried on: up to MaxReplay rows of the aggregates,
\* each aggregate's versions counting up from 1, the sequence values
\* increasing in the order of the inserts (with gaps where an insert failed or
\* was rolled back), the rows in any physical order.
NotificationLogs ==
    UNION {UNION {UNION {Orderings({RecorderRow(nt[i], who[i],
                                       Cardinality({k \in 1..i : who[k] = who[i]})) :
                                    i \in 1..n}) :
                         nt \in {f \in [1..n -> 1..(MaxReplay + 1)] :
                                   \A i, k \in 1..n : i < k => f[i] < f[k]}} :
                  who \in [1..n -> AggIds]} :
           n \in 0..MaxReplay}

InitRecorder ==
    /\ BusInit
    /\ CodecIdle /\ MappedIdle /\ OutcomeIdle
    /\ PageIdle
    /\ store \in NotificationLogs
    /\ outbox = <<>>
    /\ ntSeq = MaxReplay + 1
    /\ clock = MaxReplay + 1
    /\ uowState = [w \in Writers |-> "idle"]
    /\ txEvents = [w \in Writers |-> <<>>]
    /\ txOutbox = [w \in Writers |-> <<>>]
    /\ aggs = [w \in Writers |-> [id \in AggIds |-> None]]
    /\ extBacklog = [w \in Writers |-> <<>>]
    /\ intBacklog = [w \in Writers |-> <<>>]
    /\ loaded = [w \in Writers |-> NoLoad]
    /\ batch = [w \in Writers |-> NoBatch]
    /\ err = [w \in Writers |-> "none"]
    /\ done = [w \in Writers |-> FALSE]
    /\ scopes = 0
    /\ running = "none"
    /\ collected = [w \in Writers |-> NoCollect]

RECURSIVE OrderBy(_)
\* ORDER BY nt_id: the rows of a set by ascending nt_id (the primary key)
OrderBy(rows) ==
    IF rows = {} THEN <<>>
    ELSE LET first == CHOOSE r \in rows : \A q \in rows : r.nt_id <= q.nt_id
         IN <<first>> \o OrderBy(rows \ {first})

\* LIMIT n
Limit(s, n) == SubSeq(s, 1, IF n < Len(s) THEN n ELSE Len(s))

\* e.__dict__ of an EventStore instance the session loaded: the columns of
\* the table and the instance state of the mapping
InstanceDict(row) ==
    [nt_id |-> row.nt_id, create_dt |-> row.state.timestamp[2], id |-> row.id,
     version |-> row.version, topic |-> row.topic, state |-> row.state,
     _sa_instance_state |-> "InstanceState"]

\* the fields the frozen, keyword-only dataclass Notification declares
NotificationFields == {"id", "version", "topic", "state", "nt_id"}

\* Notification(**kwargs): the generated __init__ takes the declared fields
\* and nothing else
Notification(kwargs) ==
    IF DOMAIN kwargs \subseteq NotificationFields /\ NotificationFields \subseteq DOMAIN kwargs
    THEN [raised |-> "none", value |-> kwargs]
    ELSE [raised |-> "TypeError", value |-> None]

\* PostgresApplicationRecorder.select_notifications
select_notifications(rows, start, limit) ==
    LET q == Limit(OrderBy({r \in rows : r.nt_id >= start}), limit)
        ns == [i \in 1..Len(q) |-> Notification(InstanceDict(q[i]))]
    IN IF \E i \in 1..Len(q) : ns[i].raised # "none"
       THEN [raised |-> "TypeError", value |-> <<>>]
       ELSE [raised |-> "none", value |-> [i \in 1..Len(q) |-> ns[i].value]]

\* PostgresApplicationRecorder.max_notification_id: SELECT MAX(nt_id), NULL
\* on an empty table, `or 0`
max_notification_id(rows) ==
    IF rows = {} THEN 0
    ELSE (CHOOSE r \in rows : \A q \in rows : q.nt_id <= r.nt_id).nt_id

pageRest == <<uowVars, busVars, codec, mapped, outcome>>

SelectNotifications(start, limit) ==
    /\ page.pc = "idle"
    /\ page' = [pc |-> "selected", start |-> start, limit |-> limit,
                result |-> select_notifications(RowSet(store), start, limit)]
    /\ UNCHANGED pageRest

MaxNotificationId ==
    /\ page.pc = "idle"
    /\ page' = [pc |-> "max", result |-> max_notification_id(RowSet(store))]
    /\ UNCHANGED pageRest

NextRecorder ==
    \/ \E start \in 0..(MaxReplay + 2), limit \in 0..(MaxReplay + 1) :
          SelectNotifications(start, limit)
    \/ MaxNotificationId

SpecRecorder == InitRecorder /\ [][NextRecorder]_vars

\* ----------------------------------------------- aggregates on their own
\* flags of AccessPermission (PATENT, ELEC) and of GroupPermission (ADD_USER,
\* REMOVE_USER) the commands are tried with
AccessFlags == {1, 2}
GroupFlags == {2, 4}

\* the values a command field declared as a list is given: lists, with
\* repeated entries, and a bare member that _refine_command wraps
ListsOf(flags) ==
    {[islist |-> TRUE, items |-> <<>>]}
    \cup {[islist |-> b, items |-> <<p>>] : b \in BOOLEAN, p \in flags}
    \cup {[islist |-> TRUE, items |-> <<p, q>>] : p \in flags, q \in flags}

\* the commands of commands.py an aggregate is handed
DomainCommands ==
    {[type |-> "MakePurchase", requested_access |-> a, is_group_purchase |-> g] :
        a \in ListsOf(AccessFlags), g \in BOOLEAN}
    \cup {[type |-> "AssignPermission", requested_access |-> a] : a \in ListsOf(AccessFlags)}
    \cup {[type |-> "ExpirePermission", expired_permissions |-> a] :
            a \in {l \in ListsOf(AccessFlags) : l.islist}}
    \cup {[type |-> "RequestCreateGroup", name |-> "SVB"]}
    \cup {[type |-> "CreateGroupRole", role_name |-> n, group_permissions |-> a] :
            n \in RoleNames \cup {"owner"}, a \in ListsOf(GroupFlags)}

\* _refine_command: a value that is not a list becomes the list of that value
refine_command(field) == field.items

\* a make_purchase that leaves the chained command out
UserMakePurchaseUnchained(obj, msg, now, rnd) ==
    TriggerOn(obj, "User.PurchaseMade", refine_command(msg.requested_access),
              FALSE, now, rnd)

\* User.make_purchase, with User.assign_permission for the chained command
UserMakePurchase(obj, msg, now, rnd) ==
    LET access == refine_command(msg.requested_access)
        made == TriggerOn(obj, "User.PurchaseMade", access, FALSE, now, rnd)
    IN IF made.err # "none" \/ msg.is_group_purchase THEN made
       ELSE TriggerOn(made.agg, "User.PermissionAssigned", access, FALSE, now + 1, rnd)

\* a make_purchase that takes every purchase for a group purchase
GroupMakePurchaseUnguarded(obj, msg, now, rnd) ==
    LET access == refine_command(msg.requested_access)
        made == TriggerOn(obj, "Group.PurchaseMade", access, FALSE, now, rnd)
    IN IF made.err # "none" THEN made
       ELSE TriggerOn(made.agg, "Group.PermissionAssigned", access, FALSE, now + 1, rnd)

\* Group.make_purchase, with Group.assign_permission for the chained command
GroupMakePurchase(obj, msg, now, rnd) ==
    IF ~msg.is_group_purchase THEN [err |-> "InvalidOperation", agg |-> obj]
    ELSE LET access == refine_command(msg.requested_access)
             made == TriggerOn(obj, "Group.PurchaseMade", access, FALSE, now, rnd)
         IN IF made.err # "none" THEN made
            ELSE TriggerOn(made.agg, "Group.PermissionAssigned", access, FALSE,
                           now + 1, rnd)

\* User.execute and Group.execute: singledispatchmethod on the class of the
\* command; a class without a registered method gets the base method, which
\* does nothing. rnd holds the uuid4() values the call draws.
Execute(obj, msg, now, rnd, gid) ==
    IF obj.kind = "User"
    THEN CASE msg.type = "MakePurchase" -> UserMakePurchase(obj, msg, now, rnd)
           [] msg.type = "AssignPermission" ->
                TriggerOn(obj, "User.PermissionAssigned",
                          refine_command(msg.requested_access), FALSE, now, rnd)
           [] msg.type = "RequestCreateGroup" ->
                TriggerOn(obj, "User.CreateGroupRequested", UUID(gid), FALSE, now, rnd)
           [] msg.type = "ExpirePermission" ->
                TriggerOn(obj, "User.PermissionExpired",
                          msg.expired_permissions.items, FALSE, now, rnd)
           [] OTHER -> [err |-> "none", agg |-> obj]
    ELSE CASE msg.type = "MakePurchase" -> GroupMakePurchase(obj, msg, now, rnd)
           [] msg.type = "AssignPermission" ->
                TriggerOn(obj, "Group.PermissionAssigned",
                          refine_command(msg.requested_access), FALSE, now, rnd)
           [] msg.type = "CreateGroupRole" ->
                TriggerOn(obj, "Group.GroupRoleCreated",
                          [role_name |-> msg.role_name,
                           group_permissions |-> refine_command(msg.group_permissions)],
                          FALSE, now, rnd)
           [] OTHER -> [err |-> "none", agg |-> obj]

domainRest == <<store, outbox, ntSeq, uowState, txEvents, txOutbox, extBacklog,
                intBacklog, loaded, batch, err, done, scopes, running, collected,
                busVars, codec, mapped, page>>

\* User.create(msg) / Group.create(msg) by a caller that holds no unit of work
DomainCreate(w, id) ==
    /\ outcome.pc = "idle"
    /\ \E rnd \in DrawsOf(CreatedOf(KindOf(id)), OneRoleId),
          kw \in CreateArgs(KindOf(id), OneUser) :
         aggs' = [aggs EXCEPT ![w][id] = CreateAggregate(id, kw, clock + 1, rnd)]
    /\ clock' = clock + 1
    /\ outcome' = [pc |-> "created", n |-> 0, id |-> id]
    /\ UNCHANGED domainRest

\* aggregate.execute(msg)
DomainExecute(w, id, msg) ==
    /\ outcome.pc # "idle"
    /\ outcome.n < MaxCommands
    /\ aggs[w][id] # None
    /\ \E rnd \in DrawsOf("Group.GroupRoleCreated", RoleIds \ OneRoleId), gid \in GroupIds :
         LET r == Execute(aggs[w][id], msg, clock + 1, rnd, gid)
         IN /\ aggs' = [aggs EXCEPT ![w][id] = r.agg]
            /\ clock' = clock + Len(r.agg.events) - Len(aggs[w][id].events)
            /\ outcome' = [pc |-> "executed", n |-> outcome.n + 1, id |-> id,
                           msg |-> msg, before |-> aggs[w][id], raised |-> r.err]
    /\ UNCHANGED domainRest

NextDomain ==
    \/ \E id \in AggIds : DomainCreate("w1", id)
    \/ \E id \in AggIds, msg \in DomainCommands : DomainExecute("w1", id, msg)

SpecDomain == Init /\ [][NextDomain]_vars

\* ------------------------------------- a trigger whose apply hook raises
\* Event.mutate for an event whose apply hook raises e: the version and
\* update_dt of the aggregate are set before apply is called, in place
EventMutateApplyRaises(ev, obj, e) ==
    IF ~IsAggregate(obj) THEN [err |-> "NotAggregateError", agg |-> obj]
    ELSE IF ev.version # obj.version + 1 THEN [err |-> "VersionError", agg |-> obj]
    ELSE [err |-> e,
          agg |-> [obj EXCEPT !.version = obj.version + 1,
                              !.update_dt = ev.timestamp]]

\* User.expire_permission: the field goes into the event as the command has
\* it, without _refine_command; PermissionExpired.apply unpacks it with
\* *self.expired_permissions, a TypeError for a value that is not a list;
\* _trigger_ appends the event only after mutate has returned
expire_permission(obj, msg, now, rnd) ==
    IF msg.expired_permissions.islist
    THEN TriggerOn(obj, "User.PermissionExpired", msg.expired_permissions.items,
                   FALSE, now, rnd)
    ELSE LET event == [id |-> obj.id, version |-> obj.version + 1, timestamp |-> now,
                       externally_notifiable |-> FALSE,
                       internally_notifiable |-> InternalDefault("User.PermissionExpired"),
                       cls |-> "User.PermissionExpired",
                       arg |-> msg.expired_permissions.items]
         IN EventMutateApplyRaises(event, obj, "TypeError")

\* ExpirePermission as a caller can construct it: the dataclass checks no
\* types, so expired_permissions is a list or a bare member
ExpireCommands ==
    {[type |-> "ExpirePermission", expired_permissions |-> a] : a \in ListsOf(AccessFlags)}

\* user.execute(ExpirePermission(...))
DomainExpire(w, id, msg) ==
    /\ outcome.pc # "idle"
    /\ outcome.n < MaxCommands
    /\ aggs[w][id] # None
    /\ aggs[w][id].kind = "User"
    /\ \E rnd \in DrawsOf("User.PermissionExpired", OneRoleId) :
         LET r == expire_permission(aggs[w][id], msg, clock + 1, rnd)
         IN /\ aggs' = [aggs EXCEPT ![w][id] = r.agg]
            /\ clock' = clock + Len(r.agg.events) - Len(aggs[w][id].events)
            /\ outcome' = [pc |-> "executed", n |-> outcome.n + 1, id |-> id,
                           msg |-> msg, before |-> aggs[w][id], raised |-> r.err]
    /\ UNCHANGED domainRest

NextTrigger ==
    \/ \E id \in AggIds : DomainCreate("w1", id)
    \/ \E id \in AggIds, msg \in DomainCommands : DomainExecute("w1", id, msg)
    \/ \E id \in AggIds, msg \in ExpireCommands : DomainExpire("w1", id, msg)

SpecTrigger == Init /\ [][NextTrigger]_vars

\* --------------------------------- a Created event applied to any target
\* the Created events of either aggregate class, with any version
CreatedInputs(now) ==
    UNION {{[id |-> UUID(id), version |-> v, timestamp |-> now,
             externally_notifiable |-> FALSE, internally_notifiable |-> FALSE,
             cls |-> CreatedOf(KindOf(id)), arg |-> CreatedArg(KindOf(id), kw)] :
               v \in 1..MaxReplay, kw \in CreateArgs(KindOf(id), OneUser)} :
           id \in AggIds}

\* event.mutate(obj) for a Created event and a target that is None or an
\* aggregate the caller holds; what mutate returns is a new object, the
\* target is assigned nowhere
ApplyCreated(w, target) ==
    /\ outcome.pc \in {"created", "executed"}
    /\ \E ev \in CreatedInputs(clock + 1), rnd \in DrawsOf("Group.Created", OneRoleId) :
         LET obj == IF target = "" THEN None ELSE aggs[w][target]
             r == Mutate(ev, obj, rnd)
         IN outcome' = [pc |-> "mutated", n |-> outcome.n, id |-> outcome.id,
                        event |-> ev, target |-> target, before |-> obj,
                        raised |-> r.err, returned |-> r.agg]
    /\ UNCHANGED <<aggs, clock>>
    /\ UNCHANGED domainRest

\* the commands that bring the targets about
TargetCommands ==
    {msg \in DomainCommands : msg.type \in {"AssignPermission", "RequestCreateGroup"}}

NextCreated ==
    \/ \E id \in AggIds : DomainCreate("w1", id)
    \/ \E id \in AggIds, msg \in TargetCommands : DomainExecute("w1", id, msg)
    \/ \E target \in AggIds \cup {""} : ApplyCreated("w1", target)

SpecCreated == Init /\ [][NextCreated]_vars

\* ------------------------------------------------------------- properties
RECURSIVE SetToSeq(_)
\* the members of a finite set in some order
SetToSeq(S) ==
    IF S = {} THEN <<>>
    ELSE LET x == CHOOSE y \in S : TRUE IN <<x>> \o SetToSeq(S \ {x})

\* the domain events of the rows _get fetched
FetchedEvents(w) ==
    [i \in 1..Len(loaded[w].fetched) |->
        from_stored_event_to_domain_event(loaded[w].fetched[i])]

\* C1: a commit of a unit of work whose external backlog holds N events
\* writes N outbox rows and makes them durable together with the event rows
\* of the unit of work.
C1_CommitWritesOutboxRows ==
    [][\A w \in Writers :
         Commit(w) => /\ done'[w]
                      /\ Len(outbox') = Len(outbox) + Len(extBacklog[w])
                      /\ store' = store \o txEvents[w]]_vars

\* C2: a replay stopped by VersionError met an event whose version is not the
\* aggregate's version plus one, and the aggregate it was applied to is
\* exactly what the events before it built (version, update_dt and fields
\* untouched); a replay that ends without an error met no such event.
C2_VersionErrorLeavesAggregate ==
    \A w \in Writers :
        LET l == loaded[w]
            events == FetchedEvents(w)
            prefix == SubSeq(events, 1, l.applied)
        IN Replayed(w) =>
             /\ l.err = "VersionError" =>
                  /\ l.applied >= 1
                  /\ events[l.applied + 1].version # l.agg.version + 1
                  /\ l.agg.version = events[l.applied].version
                  /\ \E rnds \in DrawSeqs(prefix, RoleIds) :
                        ReplayFrom(prefix, rnds, 1, None).agg = l.agg
             /\ l.err = "none" =>
                  \A i \in 2..Len(events) :
                     events[i].version = events[i - 1].version + 1

C2_Witness ==
    \E w \in Writers :
        /\ loaded[w].err = "VersionError"
        /\ Len(loaded[w].fetched) = 3
        /\ loaded[w].agg.version = 1

SameKey(w, v) ==
    {p \in RowSet(batch[w].attempted) \X RowSet(batch[v].attempted) :
        p[1].id = p[2].id /\ p[1].version = p[2].version}

\* C4: the committed log holds no two rows with the same (id, version), and
\* two units of work that appended the same (id, version) do not both commit.
C4_OneWriterWins ==
    /\ \A i, j \in 1..Len(store) :
          (store[i].id = store[j].id /\ store[i].version = store[j].version) => i = j
    /\ \A w, v \in Writers :
          (w # v /\ done[w] /\ done[v]) => SameKey(w, v) = {}

C4_Witness ==
    \E w, v \in Writers :
        /\ w # v
        /\ done[w]
        /\ err[v] = "IntegrityError"
        /\ \E p \in SameKey(w, v) : p[1].version = 2 /\ p[1] \in RowSet(store)

\* C5: a unit of work whose add met the unique index ends with
\* IntegrityError, does not commit, and none of the rows of its batch is in
\* the committed log; an add that did not fail wrote its whole batch; an add
\* of no events wrote nothing.
C5_AddIsAllOrNothing ==
    \A w \in Writers :
        /\ err[w] = "IntegrityError" =>
             /\ ~done[w]
             /\ uowState[w] # "open"
             /\ RowSet(batch[w].attempted) \cap RowSet(store) = {}
             /\ \A o \in RowSet(outbox) : \A r \in RowSet(batch[w].attempted) :
                   ~(o.aggregate_id = r.id /\ o.state = r.state)
        /\ (batch[w].called /\ err[w] # "IntegrityError") =>
             Len(batch[w].attempted) = batch[w].size
        /\ (batch[w].called /\ batch[w].size = 0 /\ uowState[w] = "open" /\ ~done[w]) =>
             txEvents[w] = <<>>

C5_Witness ==
    \E w \in Writers :
        /\ err[w] = "IntegrityError"
        /\ uowState[w] = "idle"
        /\ Len(batch[w].attempted) = 2
        /\ batch[w].size = 2

\* C6: after a unit of work was left without a commit, whether by returning
\* or by an exception, no row its add wrote is in the committed log, and its
\* session holds no row any more.
C6_ExitRollsBack ==
    \A w \in Writers :
        (uowState[w] = "idle" /\ ~done[w]) =>
            /\ RowSet(batch[w].attempted) \cap RowSet(store) = {}
            /\ txEvents[w] = <<>>
            /\ txOutbox[w] = <<>>

C6_Witness ==
    \E w \in Writers :
        /\ uowState[w] = "idle"
        /\ ~done[w]
        /\ err[w] = "none"
        /\ batch[w].called
        /\ Len(batch[w].attempted) = batch[w].size
        /\ batch[w].size >= 1

\* C7: a get of an aggregate that has stored rows succeeds, the aggregate has
\* as many versions as there are rows, and every replay of the same rows
\* builds the same aggregate.
C7_ReplayIsDeterministic ==
    \A w \in Writers :
        (loaded[w].id # "" /\ loaded[w].fetched # <<>>) =>
            /\ loaded[w].err = "none"
            /\ loaded[w].agg.version = Len(loaded[w].fetched)
            /\ \A rnds \in DrawSeqs(FetchedEvents(w), RoleIds) :
                  ProxyGet(loaded[w].fetched, rnds).agg = loaded[w].agg

\* C8: a replay of rows that do not start with the Created event fails with
\* NotAggregateError, a replay of rows whose versions are not 1, 2, 3, ... in
\* this order fails with VersionError or NotAggregateError, and a replay
\* that ends without an error went through every row.
C8_BrokenSequenceRaises ==
    \A w \in Writers :
        LET l == loaded[w]
            events == FetchedEvents(w)
        IN Replayed(w) =>
             /\ events[1].cls \notin CreatedEvents =>
                  l.err = "NotAggregateError" /\ l.agg = None
             /\ (\E i \in 1..Len(events) : events[i].version # i) =>
                  l.err \in {"VersionError", "NotAggregateError"}
             /\ l.err = "none" => l.applied = Len(events) /\ l.agg.version = Len(events)

C8_Witness ==
    \E w \in Writers :
        /\ loaded[w].err = "VersionError"
        /\ Len(loaded[w].fetched) = 2
        /\ loaded[w].fetched[2].version = 3

\* C9: get returns every row of the id it can see, in ascending version, and
\* no row for an id never written.
C9_GetIsAscending ==
    \A w \in Writers :
        loaded[w].id # "" =>
            /\ RowSet(loaded[w].fetched) = {r \in Visible(w) : r.id = loaded[w].id}
            /\ \A i \in 2..Len(loaded[w].fetched) :
                  loaded[w].fetched[i - 1].version < loaded[w].fetched[i].version

\* C10: in one run of handle() the messages popped off the queue are, in
\* order, the first of the messages put on it, the queue holding the rest in
\* the order they were put on it; and a message a handler produced is popped
\* after the message whose handler produced it.
C10_DispatchIsFifo ==
    \A w \in Writers :
        /\ enqueued[w] = dispatched[w] \o queue[w]
        /\ \A i \in 1..Len(dispatched[w]) :
              dispatched[w][i].parent # 0 =>
                 \E j \in 1..(i - 1) : dispatched[w][j].id = dispatched[w][i].parent

C10_Witness ==
    \E w \in Writers :
        /\ Len(dispatched[w]) >= 3
        /\ dispatched[w][2].parent = dispatched[w][1].id
        /\ dispatched[w][3].parent = dispatched[w][1].id
        /\ dispatched[w][2].id < dispatched[w][3].id
        /\ queue[w] # <<>>

\* C11: when a command handler raises, handle() raises: the run stops at that
\* command, nothing still in the queue is dispatched and nothing is returned.
C11_CommandFailureAborts ==
    \A w \in Writers :
        busErr[w] = "Exception" =>
            /\ busPc[w] = "idle"
            /\ message[w].kind \in {"Command", "Other"}
            /\ Last(dispatched[w]) = message[w]
            /\ enqueued[w] = dispatched[w] \o queue[w]
            /\ ~ENABLED PopMessage(w)
            /\ ~ENABLED Return(w)

C11_Witness ==
    \E w \in Writers :
        /\ busErr[w] = "Exception"
        /\ queue[w] # <<>>
        /\ Len(dispatched[w]) >= 2

\* the handlers of the event being handled have all been invoked, or one of
\* them raised StopSentinel
HandlersExhausted(w) ==
    \/ Len(invoked[w]) = EVENT_HANDLERS[message[w].type]
    \/ Last(invoked[w]).outcome = "stop"

\* C12: an exception of an event handler other than StopSentinel does not
\* leave handle(): the handlers after it are still invoked and the messages
\* still in the queue are still dispatched.
C12_EventFailureIsSwallowed ==
    \A w \in Writers :
        (\E i \in 1..Len(invoked[w]) : invoked[w][i].outcome = "raise") =>
            /\ busErr[w] = "none"
            /\ busPc[w] \in {"event", "loop", "idle"}
            /\ busPc[w] = "event" =>
                  /\ handlerIdx[w] = Len(invoked[w]) + 1
                  /\ handlerIdx[w] <= EVENT_HANDLERS[message[w].type]
            /\ busPc[w] = "loop" =>
                  /\ HandlersExhausted(w)
                  /\ queue[w] # <<>> => ENABLED PopMessage(w)
            /\ busPc[w] = "idle" => queue[w] = <<>> /\ HandlersExhausted(w)

C12_Witness ==
    \E w \in Writers :
        /\ Len(invoked[w]) = 2
        /\ invoked[w][1].outcome = "raise"
        /\ invoked[w][2].outcome = "return"
        /\ queue[w] # <<>>
        /\ busPc[w] = "loop"

\* C13: after a StopSentinel no later handler of the same event is invoked,
\* the fallback event, if one was supplied, is at the tail of the queue, the
\* loop over the queue goes on and handle() does not raise.
C13_StopSentinelEndsHandlers ==
    \A w \in Writers :
        \A i \in 1..Len(invoked[w]) :
            invoked[w][i].outcome = "stop" =>
                /\ i = Len(invoked[w])
                /\ busErr[w] = "none"
                /\ busPc[w] \in {"loop", "idle"}
                /\ invoked[w][i].event # NoMessage =>
                      /\ busPc[w] = "loop"
                      /\ Last(queue[w]) = invoked[w][i].event
                      /\ ENABLED PopMessage(w)
                /\ busPc[w] = "idle" => queue[w] = <<>>

C13_Witness ==
    \E w \in Writers :
        /\ Len(invoked[w]) = 1
        /\ invoked[w][1].outcome = "stop"
        /\ invoked[w][1].event # NoMessage
        /\ Len(queue[w]) >= 2
        /\ EVENT_HANDLERS[message[w].type] = 2

\* the ids of the commands among the messages of a sequence, in order
CommandIds(msgs) ==
    LET cs == SelectSeq(msgs, LAMBDA m : m.kind = "Command")
    IN [i \in 1..Len(cs) |-> cs[i].id]

\* the results that command handlers returned, in order
CommandResults(w) ==
    SelectSeq(results[w],
              LAMBDA r : \E i \in 1..Len(dispatched[w]) :
                            dispatched[w][i].id = r /\ dispatched[w][i].kind = "Command")

\* handle() has returned its results
Returned(w) == busPc[w] = "idle" /\ busErr[w] = "none" /\ dispatched[w] # <<>>

\* C14: handle() returns only when the queue is empty, and the results hold
\* the return value of every command handler that ran, in the order the
\* commands were handled; a run that starts with a command returns a list that
\* begins with that command's result.
C14_ResultsOfCommands ==
    \A w \in Writers :
        Returned(w) =>
            /\ queue[w] = <<>>
            /\ enqueued[w] = dispatched[w]
            /\ CommandResults(w) = CommandIds(dispatched[w])
            /\ dispatched[w][1].kind = "Command" =>
                  /\ results[w] # <<>>
                  /\ results[w][1] = dispatched[w][1].id

C14_Witness ==
    \E w \in Writers :
        /\ Returned(w)
        /\ dispatched[w][1].kind = "Command"
        /\ Len(CommandIds(dispatched[w])) = 2
        /\ Len(results[w]) >= 3

\* the backlog of a kind that the event store of a task holds
BacklogOf(w, kind) == IF kind = "internal_backlogs" THEN intBacklog[w] ELSE extBacklog[w]

\* and the one it holds after the step
BacklogAfter(w, kind) == IF kind = "internal_backlogs" THEN intBacklog'[w] ELSE extBacklog'[w]

\* C17: collect_backlogs yields every event of the chosen backlog exactly once
\* and in the order the events were put there, and removes what it yields: the
\* backlog is empty afterwards, the backlog of the other kind is untouched, and
\* a second collect right after yields nothing.
C17_CollectDrainsOnce ==
    [][\A w \in Writers :
          collected'[w] # collected[w] /\ collected'[w] # NoCollect =>
              LET kind == collected'[w].kind
                  items == collected'[w].items
                  other == CHOOSE k \in BacklogKinds : k # kind
              IN /\ items = BacklogOf(w, kind)
                 /\ \A i, j \in 1..Len(items) : i # j => items[i] # items[j]
                 /\ BacklogAfter(w, kind) = <<>>
                 /\ BacklogAfter(w, other) = BacklogOf(w, other)
                 /\ collect_backlogs("entered", BacklogAfter(w, kind)).items = <<>>]_vars

C17_Witness ==
    \E w \in Writers :
        /\ collected[w].kind = "internal_backlogs"
        /\ Len(collected[w].items) = 2
        /\ collected[w].items[1].version < collected[w].items[2].version
        /\ intBacklog[w] = <<>>

\* a step of _trigger_ on the aggregate a task holds under an id
Triggered(w, id) ==
    /\ aggs[w][id] # None
    /\ aggs'[w][id] # None
    /\ Len(aggs'[w][id].events) > Len(aggs[w][id].events)

Added(w) == batch'[w].called /\ ~batch[w].called

\* the rows a recorder was handed are the stored form of the events, in order
StoredFormOf(rows, events) ==
    /\ Len(rows) <= Len(events)
    /\ \A i \in 1..Len(rows) :
          LET s == from_domain_event_to_stored_event(events[i])
          IN /\ rows[i].id = s.id
             /\ rows[i].version = s.version
             /\ rows[i].topic = s.topic
             /\ rows[i].state = s.state

\* C20: draining the pending events returns all of them in the order they
\* were appended and removes them, so that each is returned by one drain only
\* and a further drain returns nothing; the drain changes neither the version
\* nor any other field of the aggregate.
C20_CollectDrainsPending ==
    [][\A w \in Writers :
          Added(w) =>
              \E ids \in AddArgs(w) :
                  /\ \A id \in AggIds :
                        IF \E i \in 1..Len(ids) : ids[i] = id
                        THEN /\ aggs'[w][id] = [aggs[w][id] EXCEPT !.events = <<>>]
                             /\ Collect(aggs'[w][id]).events = <<>>
                             /\ Collect(aggs[w][id]).events = aggs[w][id].events
                        ELSE aggs'[w][id] = aggs[w][id]
                  /\ LET pending == Concat([i \in 1..Len(ids) |-> aggs[w][ids[i]].events])
                     IN /\ batch'[w].size = Len(pending)
                        /\ StoredFormOf(batch'[w].attempted, pending)
                        /\ uowState'[w] = "open" =>
                              Len(batch'[w].attempted) = Len(pending)]_vars

C20_Witness ==
    \E w \in Writers, id \in AggIds :
        /\ batch[w].called
        /\ batch[w].size = 2
        /\ Len(batch[w].attempted) = 2
        /\ uowState[w] = "open"
        /\ aggs[w][id] # None
        /\ aggs[w][id].events = <<>>
        /\ aggs[w][id].version = 3

\* the rows the handler of a run added are rows of the committed log
RowsOfRun(w) == {r \in RowSet(batch[w].attempted) : r \in RowSet(store)}

\* C15: a run of handle() that raises leaves no row it wrote in the log, also
\* when a handler of the run had committed before the exception.
C15_FailedRunLeavesNoRows ==
    \A w \in Writers : busErr[w] # "none" => RowsOfRun(w) = {}

\* the messages of a sequence
MessageIds(msgs) == {msgs[i].id : i \in 1..Len(msgs)}

\* a step in which the unit of work of a task commits, or leaves its scope
Commits(w) == done'[w] /\ ~done[w]
Exits(w) == uowState[w] # "idle" /\ uowState'[w] = "idle"

\* what a task has in its session, its event store and its hands
OwnState(w) == <<txEvents[w], txOutbox[w], intBacklog[w], extBacklog[w], aggs[w],
                 uowState[w], done[w], err[w]>>

\* C16: concurrent runs of handle() share nothing but the log: an event a
\* handler of one run emitted is queued in that run only, a commit of one run
\* writes that run's pending rows and nothing else, and a rollback of one run
\* discards nothing of the other.
C16_RunsAreIsolated ==
    /\ [](\A w \in Writers :
             /\ \A i \in 1..Len(enqueued[w]) :
                   enqueued[w][i].kind = "Event" =>
                      /\ enqueued[w][i].parent \in MessageIds(dispatched[w])
                      /\ \E r \in RowsOfRun(w) :
                            resolve_topic(r.topic) = enqueued[w][i].type
             /\ \A v \in Writers \ {w} :
                   MessageIds(enqueued[w]) \cap MessageIds(enqueued[v]) = {})
    /\ [][\A w \in Writers :
             /\ Commits(w) =>
                   /\ store' = store \o txEvents[w]
                   /\ outbox' = outbox \o txOutbox[w]
                   /\ \A v \in Writers \ {w} : OwnState(v)' = OwnState(v)
             /\ Exits(w) =>
                   /\ store' = store
                   /\ outbox' = outbox
                   /\ \A v \in Writers \ {w} : OwnState(v)' = OwnState(v)]_vars

C16_Witness ==
    \E w \in Writers, v \in Writers :
        /\ w # v
        /\ message[w].type = "RequestCreateGroup"
        /\ message[v].type = "RequestCreateGroup"
        /\ RowsOfRun(w) # {}
        /\ \E i \in 1..Len(enqueued[w]) : enqueued[w][i].kind = "Event"
        /\ busErr[v] = "IntegrityError"
        /\ enqueued[v] = <<message[v]>>

\* the highest version among the committed rows of an aggregate
LastVersion(id) ==
    LET vs == {r.version : r \in {x \in RowSet(store) : x.id = id}}
    IN IF vs = {} THEN 0 ELSE CHOOSE v \in vs : \A u \in vs : u <= v

\* C18: the commit of the RequestCreateGroup handler appends exactly one row
\* to the log, a CreateGroupRequested event of the user with the version after
\* the user's last one, internally and not externally notifiable, carrying
\* the user's id and a group id; collect_backlogs("internal_backlogs") yields
\* that event, and no outbox row is written.
C18_RequestCreateGroupEmitsOneEvent ==
    [][\A w \in Writers :
          InHandler(w, "RequestCreateGroup") /\ Commits(w) =>
              /\ Len(store') = Len(store) + 1
              /\ SubSeq(store', 1, Len(store)) = store
              /\ LET row == Last(store')
                     event == from_stored_event_to_domain_event(row)
                 IN /\ event.cls = "User.CreateGroupRequested"
                    /\ event.version = LastVersion(row.id) + 1
                    /\ event.version >= 2
                    /\ event.internally_notifiable
                    /\ ~event.externally_notifiable
                    /\ \E id \in UserIds : event.id = UUID(id)
                    /\ \E g \in GroupIds : event.arg = UUID(g)
                    /\ collect_backlogs("entered", intBacklog'[w]).items = <<event>>
              /\ outbox' = outbox
              /\ txOutbox[w] = <<>>]_vars

C18_Witness ==
    \E w \in Writers :
        /\ InHandler(w, "RequestCreateGroup")
        /\ HandlerReturned(w)
        /\ Len(intBacklog[w]) = 1
        /\ intBacklog[w][1].version = 2
        /\ RowsOfRun(w) # {}
        /\ outbox = <<>>

\* the message has no handler: an event or a command of a class that is not
\* registered, or an object that is neither
Unregistered(m) ==
    IF m.kind = "Event" THEN m.type \notin DOMAIN EVENT_HANDLERS
    ELSE IF m.kind = "Command" THEN m.type \notin TestCommands \cup COMMAND_HANDLERS
    ELSE TRUE

\* C21: a popped message without a registered handler makes handle() raise
\* at once: no handler is invoked for it, nothing is produced or returned for
\* it, and the loop never goes on past it.
C21_UnregisteredFailsFast ==
    \A w \in Writers :
        (/\ dispatched[w] # <<>>
         /\ Last(dispatched[w]) = message[w]
         /\ Unregistered(message[w])) =>
            /\ \/ busPc[w] \in {"event", "command", "other"} /\ busErr[w] = "none"
               \/ busPc[w] = "idle" /\ busErr[w] \in {"KeyError", "Exception"}
            /\ busErr[w] = "Exception" <=> busPc[w] = "idle" /\ message[w].kind = "Other"
            /\ invoked[w] = <<>>
            /\ \A i \in 1..Len(results[w]) : results[w][i] # message[w].id
            /\ \A i \in 1..Len(enqueued[w]) : enqueued[w][i].parent # message[w].id
            /\ enqueued[w] = dispatched[w] \o queue[w]

C21_Witness ==
    \E w \in Writers :
        /\ busPc[w] = "idle"
        /\ busErr[w] = "KeyError"
        /\ message[w].kind = "Event"
        /\ Len(dispatched[w]) >= 2
        /\ Last(dispatched[w]) = message[w]
        /\ queue[w] # <<>>

\* C22: for the Transcoder, decode(encode(x)) == x for every value x composed
\* of JSON primitives and registered types (UUID, driver UUID, Decimal,
\* datetime), and encode(decode(b)) == b for every payload b that encode
\* produced.
C22_TranscoderRoundTrip ==
    /\ codec.pc \in {"decoded", "again"} => PyEq(codec.d, codec.o)
    /\ codec.pc = "again" => codec.b2 = codec.b

C24_MissingAggregateIsNotFound ==
    \A w \in Writers :
        /\ (loaded[w].id # "" /\ loaded[w].fetched = <<>>) =>
              /\ loaded[w].err = "AggregateNotFoundError"
              /\ err[w] = "AggregateNotFoundError"
              /\ uowState[w] = "failed"
              /\ \A id \in AggIds : aggs[w][id] = None
        /\ (InHandler(w, "RequestCreateGroup") /\ err[w] = "AggregateNotFoundError") =>
              /\ ~batch[w].called /\ ~done[w]
              /\ txEvents[Session(w)] = <<>>
              /\ ~ENABLED ServiceCommandReturns(w)
        /\ busErr[w] = "ObjectNotFound" =>
              /\ message[w].type = "RequestCreateGroup"
              /\ err[w] = "AggregateNotFoundError"
              /\ ~batch[w].called /\ ~done[w]
              /\ RowsOfRun(w) = {}
              /\ intBacklog[w] = <<>> /\ extBacklog[w] = <<>>
              /\ results[w] = <<>>
              /\ enqueued[w] = <<message[w]>>

C24_Witness ==
    \E w \in Writers :
        /\ busPc[w] = "idle" /\ busErr[w] = "ObjectNotFound"
        /\ store # <<>>

\* the rows of the log a query from a sequence number on is about
FromSeq(start) == {r \in RowSet(store) : r.nt_id >= start}

\* C30: select_notifications(start, limit) returns exactly the stored events
\* whose sequence number is at least start, by ascending sequence number, cut
\* to the first limit of them; max_notification_id() returns the highest
\* sequence number of the log, or 0 when the log is empty.
C30_NotificationsPageTheLog ==
    /\ page.pc = "selected" =>
          /\ page.result.raised = "none"
          /\ LET v == page.result.value
                 M == FromSeq(page.start)
             IN /\ Len(v) = IF page.limit < Cardinality(M) THEN page.limit ELSE Cardinality(M)
                /\ \A i \in 1..Len(v) :
                      \E r \in M : /\ r.nt_id = v[i].nt_id /\ r.id = v[i].id
                                   /\ r.version = v[i].version /\ r.topic = v[i].topic
                                   /\ r.state = v[i].state
                /\ \A i, k \in 1..Len(v) : i < k => v[i].nt_id < v[k].nt_id
                /\ \A r \in M : (\A i \in 1..Len(v) : v[i].nt_id # r.nt_id) =>
                                    \A i \in 1..Len(v) : v[i].nt_id < r.nt_id
    /\ page.pc = "max" =>
          /\ \A r \in RowSet(store) : r.nt_id <= page.result
          /\ IF store = <<>> THEN page.result = 0
             ELSE \E r \in RowSet(store) : r.nt_id = page.result

\* the user a task has in its hands while it handles CreateUser
CreatedUsers(w) == {id \in UserIds : InHandler(w, "CreateUser") /\ aggs[w][id] # None}

\* C25: creating a user produces exactly one event, a Created event with
\* version 1, and the commit of create_user writes exactly one row for it; the
\* user has version 1, the name and email of the command, no permission and
\* an unverified email; a later load of the stored id gives a user with that
\* id.
C25_CreateUserEmitsCreated ==
    /\ [](\A w \in Writers : \A id \in CreatedUsers(w) :
             LET user == aggs[w][id]
                 pending == IF batch[w].called
                            THEN [i \in 1..Len(batch[w].attempted) |->
                                    from_stored_event_to_domain_event(batch[w].attempted[i])]
                            ELSE user.events
             IN /\ user.kind = "User" /\ user.id = UUID(id)
                /\ user.version = 1
                /\ user.permissions = 0
                /\ user.email_verified = FALSE
                /\ Len(pending) = 1
                /\ pending[1].cls = "User.Created"
                /\ pending[1].version = 1
                /\ pending[1].id = user.id
                /\ \E kw \in CreateUserArgs :
                      /\ pending[1].arg.name = kw.name /\ pending[1].arg.email = kw.email
                      /\ user.name = kw.name /\ user.email = kw.email)
    /\ [][\A w \in Writers :
            InHandler(w, "CreateUser") /\ Commits(w) =>
                /\ Len(store') = Len(store) + 1
                /\ Last(store').version = 1
                /\ Last(store').topic = get_topic("User.Created")
                /\ \E id \in CreatedUsers(w) : Last(store').id = Str(aggs[w][id].id)]_vars
    /\ [](\A w \in Writers :
             (loaded[w].id # "" /\ loaded[w].err = "none") =>
                 /\ loaded[w].agg.id = UUID(loaded[w].id)
                 /\ \E i \in 1..Len(store) :
                       /\ store[i].id = loaded[w].id /\ store[i].version = 1
                       /\ LET created == from_stored_event_to_domain_event(store[i])
                          IN /\ loaded[w].agg.name = created.arg.name
                             /\ loaded[w].agg.email = created.arg.email)

C25_Witness ==
    \E w \in Writers :
        /\ InHandler(w, "RequestCreateGroup")
        /\ loaded[w].id # "" /\ loaded[w].err = "none"
        /\ loaded[w].agg.email = ""
        /\ Len(store) = 1

\* the aggregate the last call was made on, as it is now
Subject == aggs["w1"][outcome.id]

\* the events the last call appended to the pending events
Appended ==
    SubSeq(Subject.events, Len(outcome.before.events) + 1, Len(Subject.events))

ExecutedOn(kind, type) ==
    /\ outcome.pc = "executed"
    /\ outcome.before.kind = kind
    /\ outcome.msg.type = type

\* C26: MakePurchase that is not a group purchase, executed on a user at
\* version v, appends exactly two events, PurchaseMade with version v + 1 and
\* then PermissionAssigned with version v + 2, and afterwards the user has
\* the requested access.
C26_UserPurchaseChainsAssignment ==
    (ExecutedOn("User", "MakePurchase") /\ ~outcome.msg.is_group_purchase) =>
        LET v == outcome.before.version
            access == outcome.msg.requested_access.items
        IN /\ outcome.raised = "none"
           /\ Len(Appended) = 2
           /\ Subject.events = outcome.before.events \o Appended
           /\ Appended[1].cls = "User.PurchaseMade" /\ Appended[1].version = v + 1
           /\ Appended[2].cls = "User.PermissionAssigned" /\ Appended[2].version = v + 2
           /\ Appended[1].arg = access /\ Appended[2].arg = access
           /\ Appended[1].id = Subject.id /\ Appended[2].id = Subject.id
           /\ Subject.version = v + 2
           /\ \A i \in 1..Len(access) : has_permission(Subject.permissions, <<access[i]>>)

C26_Witness ==
    /\ ExecutedOn("User", "MakePurchase") /\ ~outcome.msg.is_group_purchase
    /\ ~outcome.msg.requested_access.islist
    /\ outcome.before.version = 2
    /\ ~has_permission(outcome.before.permissions, outcome.msg.requested_access.items)
    /\ Len(Subject.events) = 4

\* C27: MakePurchase that is not flagged a group purchase, executed on a
\* group, raises InvalidOperation and leaves the group as it was (pending
\* events, version, permissions); flagged a group purchase it appends
\* PurchaseMade and then PermissionAssigned, and the group has the requested
\* access.
C27_GroupPurchaseMustBeFlagged ==
    ExecutedOn("Group", "MakePurchase") =>
        IF ~outcome.msg.is_group_purchase
        THEN /\ outcome.raised = "InvalidOperation"
             /\ Subject = outcome.before
        ELSE LET access == outcome.msg.requested_access.items
             IN /\ outcome.raised = "none"
                /\ Len(Appended) = 2
                /\ Subject.events = outcome.before.events \o Appended
                /\ Appended[1].cls = "Group.PurchaseMade"
                /\ Appended[1].version = outcome.before.version + 1
                /\ Appended[2].cls = "Group.PermissionAssigned"
                /\ Appended[2].version = outcome.before.version + 2
                /\ Appended[1].arg = access /\ Appended[2].arg = access
                /\ \A i \in 1..Len(access) :
                      has_permission(Subject.permissions, <<access[i]>>)

C27_Witness ==
    /\ ExecutedOn("Group", "MakePurchase")
    /\ ~outcome.msg.is_group_purchase
    /\ outcome.raised = "InvalidOperation"
    /\ outcome.before.permissions # 0
    /\ Len(outcome.before.events) = 3

\* the flags of a list
FlagsIn(perm) == {perm[i] : i \in 1..Len(perm)}

\* the flags a permissions value holds
Held(permissions) == {f \in AccessFlags : has_permission(permissions, <<f>>)}

\* C28: after PermissionAssigned for a flag the user has the flag, after
\* PermissionExpired for a flag the user does not have it, every other flag
\* is as before and permissions is a mask of the defined flags; assigning a
\* flag already held or expiring a flag not held leaves permissions as it
\* was.
C28_AssignAndExpireFlipOneFlag ==
    /\ ExecutedOn("User", "AssignPermission") =>
          LET p == FlagsIn(outcome.msg.requested_access.items)
          IN /\ Held(Subject.permissions) = Held(outcome.before.permissions) \cup p
             /\ Subject.permissions = Sum(SetToSeq(Held(Subject.permissions)))
             /\ p \subseteq Held(outcome.before.permissions) =>
                    Subject.permissions = outcome.before.permissions
             /\ Last(Subject.events).cls = "User.PermissionAssigned"
    /\ ExecutedOn("User", "ExpirePermission") =>
          LET p == FlagsIn(outcome.msg.expired_permissions.items)
          IN /\ Held(Subject.permissions) = Held(outcome.before.permissions) \ p
             /\ Subject.permissions = Sum(SetToSeq(Held(Subject.permissions)))
             /\ p \cap Held(outcome.before.permissions) = {} =>
                    Subject.permissions = outcome.before.permissions
             /\ Last(Subject.events).cls = "User.PermissionExpired"

C28_Witness ==
    /\ ExecutedOn("User", "ExpirePermission")
    /\ outcome.msg.expired_permissions.items = <<1>>
    /\ outcome.before.permissions = 3
    /\ Subject.permissions = 2
    /\ outcome.before.events[Len(outcome.before.events)].cls = "User.PermissionAssigned"

\* the roles of the group that carry a name
RolesNamed(name) == {r \in Subject.group_roles : r.name = name}

\* has_group_permission(q), for the flags of GroupPermission
HeldByRole(role) == {q \in {1, 2, 4, 8, 16, 32} : BitAnd(role.group_permissions, q) = q}

\* C29: after a group has executed CreateGroupRole(role_name,
\* group_permissions) it has exactly one role of that name, and that role has
\* a group permission if and only if it is among the requested ones, whatever
\* the list (repeated entries included) and whether or not a role of that
\* name existed.
C29_CreateGroupRoleGrantsRequested ==
    ExecutedOn("Group", "CreateGroupRole") =>
        /\ Cardinality(RolesNamed(outcome.msg.role_name)) = 1
        /\ \A r \in RolesNamed(outcome.msg.role_name) :
              HeldByRole(r) = FlagsIn(outcome.msg.group_permissions.items)

\* C31: on the bus Bootstrap built, a command whose handler returned has its
\* result in the results, and once the handlers of an event it emitted are
\* done with, every handler registered for the event's class has been called.
C31_BootstrapBusInvokesEventHandlers ==
    \A w \in Writers :
        /\ (busPc[w] = "loop" /\ message[w].kind = "Command" /\ dispatched[w] # <<>>) =>
              Last(results[w]) = message[w].id
        /\ (busPc[w] \in {"loop", "idle"} /\ busErr[w] = "none"
            /\ dispatched[w] # <<>> /\ message[w].kind = "Event"
            /\ message[w].type \in DOMAIN BootBus.event_handlers) =>
              /\ Len(invoked[w]) = Len(BootBus.event_handlers[message[w].type])
              /\ \A i \in 1..Len(invoked[w]) : invoked[w][i].outcome # "uncalled"

\* C32: a command whose handler does not declare uow and does not raise is
\* handled to the end: handle_command raises nothing, and the handler's
\* return value is the last of the results.
C32_CommandWithoutUowCompletes ==
    \A w \in Writers :
        (/\ busPc[w] \in {"loop", "idle"}
         /\ dispatched[w] # <<>>
         /\ message[w].kind = "Command"
         /\ message[w].type \in DOMAIN PlainBus.command_handlers
         /\ ~UowRequired(PlainBus.command_handlers[message[w].type])
         /\ busErr[w] # "Exception") =>
            /\ busErr[w] = "none"
            /\ results[w] # <<>>
            /\ Last(results[w]) = message[w].id

\* C33: after any registrations, the tag under which a registered type is
\* encoded is registered, and decodes with the transcoding that encodes the
\* type.
C33_RegistryIsTwoWay ==
    codec.pc = "registry" =>
        \A t \in DOMAIN codec.types :
            /\ codec.types[t].name \in DOMAIN codec.names
            /\ codec.names[codec.types[t].name] = codec.types[t]

\* the versions of the committed events of an aggregate id
CommittedVersions(id) == {store[i].version : i \in {j \in 1..Len(store) : store[j].id = id}}

\* C34: the committed events of every aggregate id have the versions 1..n
\* with no gap, and no load of a committed aggregate raises VersionError.
C34_CommittedVersionsAreGapless ==
    /\ \A id \in AggIds :
          CommittedVersions(id) = 1..Cardinality(CommittedVersions(id))
    /\ \A w \in Writers : loaded[w].err # "VersionError"

\* the event has a committed row
IsCommitted(event) ==
    \E r \in RowSet(store) : r.id = Str(event.id) /\ r.version = event.version

\* C35: when handle_command puts the internal backlog on the queue, every
\* event of the backlog is committed: no event of a unit of work that was
\* rolled back reaches the queue.
C35_OnlyCommittedEventsAreQueued ==
    [][\A w \in Writers :
          (busPc[w] = "command" /\ Len(enqueued'[w]) > Len(enqueued[w])) =>
              \A i \in 1..Len(intBacklog[w]) : IsCommitted(intBacklog[w][i])]_vars

\* an event of the internal backlog of a run stays there or goes to the queue
BacklogIsKept(w) ==
    \A i \in 1..Len(intBacklog[w]) :
        \/ \E j \in 1..Len(intBacklog'[w]) : intBacklog'[w][j] = intBacklog[w][i]
        \/ \E j \in 1..Len(enqueued'[w]) : enqueued'[w][j].id = intBacklog[w][i].id

\* C36: in a handle() run that does not abort, every event that a handler left
\* in the internal backlog of the unit of work is dispatched in that run and
\* none is dropped: while the run goes on, an event of the backlog stays in it
\* or is put on the queue, and when handle() returns the backlog is empty and
\* everything that was queued has been dispatched; this also when the handler
\* raised StopSentinel or another exception and a later handler enters the
\* unit of work again
C36_BacklogEventsAreDispatched ==
    /\ [][\A w \in Writers : busPc[w] # "idle" => BacklogIsKept(w)]_vars
    /\ [](\A w \in Writers :
             (busPc[w] = "idle" /\ busErr[w] = "none") =>
                 /\ intBacklog[w] = <<>>
                 /\ dispatched[w] = enqueued[w])

\* C37: a command that raises leaves the aggregate as it was before the call
\* (version, update timestamp, domain fields, pending events), so the version
\* of an aggregate that has kept all its pending events is the number of
\* those events: 1 for Created plus one for each event triggered.
C37_TriggerIsAtomic ==
    /\ (outcome.pc = "executed" /\ outcome.raised # "none") => Subject = outcome.before
    /\ outcome.pc # "idle" => Subject.version = Len(Subject.events)

\* C38: a Created event applied to any target (None, or an aggregate of any
\* class, id and version) raises nothing, leaves the target as it was, and
\* returns an aggregate of the class its topic names, with the id, version
\* and creation timestamp of the event and no pending events.
C38_CreatedIgnoresItsTarget ==
    outcome.pc = "mutated" =>
        /\ outcome.raised = "none"
        /\ outcome.returned.kind = resolve_topic(outcome.event.arg.topic)
        /\ outcome.returned.id = outcome.event.id
        /\ outcome.returned.version = outcome.event.version
        /\ outcome.returned.create_dt = outcome.event.timestamp
        /\ outcome.returned.events = <<>>
        /\ outcome.target # "" => aggs["w1"][outcome.target] = outcome.before

C38_Witness ==
    /\ outcome.pc = "mutated"
    /\ outcome.target = "u1" /\ IsAggregate(outcome.before)
    /\ outcome.before.version = 2 /\ Len(outcome.before.events) = 2
    /\ outcome.event.cls = "Group.Created" /\ outcome.event.version = 3
    /\ outcome.returned.kind = "Group"

\* the claim as stated: when handle() has ended, by returning or by raising,
\* every message that was put on the queue in the run has been dispatched
C39_EveryMessageIsDispatched ==
    \A w \in Writers : busPc[w] = "idle" => dispatched[w] = enqueued[w]

\* a step of a run that dispatches takes the head of the queue off it
PopsTheHead(w) ==
    dispatched'[w] # dispatched[w] =>
        /\ queue[w] # <<>>
        /\ dispatched'[w] = Append(dispatched[w], Head(queue[w]))
        /\ queue'[w] = Tail(queue[w])

\* a step of a run that dispatches nothing takes nothing off the queue
KeepsTheQueue(w) ==
    dispatched'[w] = dispatched[w] =>
        /\ Len(queue'[w]) >= Len(queue[w])
        /\ SubSeq(queue'[w], 1, Len(queue[w])) = queue[w]

\* C39: in a run of handle() a message leaves the queue only by being popped
\* off its head and dispatched, so no entry of the queue is dispatched twice
\* or passed over; every run of handle() ends, by returning or by raising; a
\* run that returns has dispatched every message put on the queue (the seed,
\* the drained internal events, the StopSentinel fallbacks) exactly once, and
\* a run that raises leaves the messages behind the failing one undispatched.
C39_QueueIsDrainedAndHandleEnds ==
    /\ [][\A w \in Writers : busPc[w] # "idle" => PopsTheHead(w) /\ KeepsTheQueue(w)]_vars
    /\ [](\A w \in Writers :
             busPc[w] = "idle" =>
                 IF busErr[w] = "none"
                 THEN queue[w] = <<>> /\ dispatched[w] = enqueued[w]
                 ELSE enqueued[w] = dispatched[w] \o queue[w])
    /\ (busPc["w1"] # "idle") ~> (busPc["w1"] = "idle")

C39_Witness ==
    \E w \in Writers :
        /\ busPc[w] = "idle" /\ busErr[w] = "none"
        /\ Len(dispatched[w]) = 4 /\ dispatched[w] = enqueued[w]
        /\ dispatched[w][1].kind = "Command"
        /\ dispatched[w][2].parent = dispatched[w][1].id
        /\ dispatched[w][3] = dispatched[w][2]
        /\ dispatched[w][4].kind = "Command"

====
